---- MODULE Spec2Model ----
(***************************************************************************)
(* Model of the semantic-search edge function                              *)
(* (supabase/functions/semantic-search/index.ts) together with the         *)
(* database objects it queries (supabase/migrations/..._young_moon.sql).   *)
(*                                                                         *)
(* Text is a sequence of one-character strings.  A nullable SQL / optional *)
(* JS value is a sequence of length 0 (NULL, undefined) or 1 (the value).  *)
(* Floating-point results are kept exact: a score is num / sqrt(den2), and *)
(* den2 = 0 is the IEEE NaN that 0/0 produces.                             *)
(***************************************************************************)
EXTENDS Integers, Sequences, FiniteSets, TLC

\* ------------------------------------------------------------------------
\* Bounds of the model
\* ------------------------------------------------------------------------

\* Largest number of rows the members table holds in the model.
MaxMembers == 2

\* ------------------------------------------------------------------------
\* Optional values
\* ------------------------------------------------------------------------

Null == <<>>

Some(v) == <<v>>

IsNull(o) == Len(o) = 0

Get(o) == o[1]

\* ------------------------------------------------------------------------
\* Text
\* ------------------------------------------------------------------------

Space == " "

Tab == "\t"

\* The white-space characters String.prototype.trim strips.
Whitespace == {Space, Tab}

\* String.prototype.toLowerCase on one character.
LowerChar(c) ==
  CASE c = "A" -> "a"
    [] c = "B" -> "b"
    [] c = "C" -> "c"
    [] OTHER -> c

\* String.prototype.toLowerCase.
ToLowerCase(s) == [i \in 1..Len(s) |-> LowerChar(s[i])]

\* Number of leading white-space characters of s.
RECURSIVE LeadingSpaces(_)
LeadingSpaces(s) ==
  IF Len(s) = 0 \/ s[1] \notin Whitespace THEN 0 ELSE 1 + LeadingSpaces(Tail(s))

\* Number of trailing white-space characters of s.
RECURSIVE TrailingSpaces(_)
TrailingSpaces(s) ==
  IF Len(s) = 0 \/ s[Len(s)] \notin Whitespace
    THEN 0
    ELSE 1 + TrailingSpaces(SubSeq(s, 1, Len(s) - 1))

\* String.prototype.trim.
Trim(s) ==
  IF LeadingSpaces(s) = Len(s)
    THEN <<>>
    ELSE SubSeq(s, LeadingSpaces(s) + 1, Len(s) - TrailingSpaces(s))

\* String.prototype.split(' '): the pieces between single spaces, the empty
\* pieces that adjacent spaces delimit included.
RECURSIVE SplitFrom(_, _)
SplitFrom(s, cur) ==
  IF Len(s) = 0
    THEN <<cur>>
    ELSE IF s[1] = Space
      THEN <<cur>> \o SplitFrom(Tail(s), <<>>)
      ELSE SplitFrom(Tail(s), Append(cur, s[1]))

Split(s) == SplitFrom(s, <<>>)

\* Array.prototype.filter(term => term.length > 2).
RECURSIVE LongTerms(_)
LongTerms(ts) ==
  IF Len(ts) = 0
    THEN <<>>
    ELSE IF Len(Head(ts)) > 2
      THEN <<Head(ts)>> \o LongTerms(Tail(ts))
      ELSE LongTerms(Tail(ts))

\* Array.prototype.join(' ').
RECURSIVE Join(_)
Join(parts) ==
  IF Len(parts) = 0
    THEN <<>>
    ELSE IF Len(parts) = 1
      THEN Head(parts)
      ELSE Head(parts) \o <<Space>> \o Join(Tail(parts))

\* String.prototype.includes: t occurs in s as a contiguous substring.
Includes(s, t) ==
  \E i \in 0..(Len(s) - Len(t)) : SubSeq(s, i + 1, i + Len(t)) = t

\* ------------------------------------------------------------------------
\* Vectors and cosine scores
\* ------------------------------------------------------------------------

\* Dimension of the embedding column, vector(384).
EmbeddingDim == 384

\* A vector of dimension Len(head) + n: the coordinates head followed by n
\* coordinates equal to fill.  Coordinates are integers in units of 0.1.
Vec(head, fill) == [head |-> head, fill |-> fill, n |-> EmbeddingDim - Len(head)]

Dim(v) == Len(v.head) + v.n

RECURSIVE DotHead(_, _)
DotHead(a, b) ==
  IF Len(a) = 0 THEN 0 ELSE a[1] * b[1] + DotHead(Tail(a), Tail(b))

\* Inner product of two vectors of the same shape.
Dot(a, b) == DotHead(a.head, b.head) + a.n * a.fill * b.fill

\* A float8 result kept exact: the value num / sqrt(den2); den2 = 0 is NaN.
Score(num, den2) == [num |-> num, den2 |-> den2]

IsNaN(s) == s.den2 = 0

ScoreZero == Score(0, 1)

ScoreOne == Score(1, 1)

\* a >= b on two numbers (neither is NaN).
NumGeq(a, b) ==
  IF a.num >= 0
    THEN b.num < 0 \/ a.num * a.num * b.den2 >= b.num * b.num * a.den2
    ELSE b.num < 0 /\ a.num * a.num * b.den2 <= b.num * b.num * a.den2

\* PostgreSQL's float8 order: NaN equals NaN and is greater than every number.
PgGeq(a, b) ==
  IF IsNaN(a) THEN TRUE ELSE IF IsNaN(b) THEN FALSE ELSE NumGeq(a, b)

\* The arithmetic order: a comparison with NaN is false.
Geq(a, b) == ~IsNaN(a) /\ ~IsNaN(b) /\ NumGeq(a, b)

\* 1 - (a <=> b) of pgvector: the cosine of the angle between a and b, and
\* NaN (0/0) when either vector has norm zero.
CosineSimilarity(a, b) == Score(Dot(a, b), Dot(a, a) * Dot(b, b))

\* ------------------------------------------------------------------------
\* Generic sequence helpers
\* ------------------------------------------------------------------------

Min(a, b) == IF a <= b THEN a ELSE b

\* The first n elements of s (all of s when it is shorter): SQL LIMIT n.
Limit(s, n) == SubSeq(s, 1, Min(n, Len(s)))

\* Every arrangement of the elements of the index set S into a sequence in
\* which <<p[i], p[j]>> is in the relation Before whenever i < j: the row
\* orders an ORDER BY may produce, ties in any order.
Orderings(S, Before) ==
  {p \in [1..Cardinality(S) -> S] :
     /\ \A i, j \in 1..Cardinality(S) : i # j => p[i] # p[j]
     /\ \A i, j \in 1..Cardinality(S) : i < j => <<p[i], p[j]>> \in Before}

\* ------------------------------------------------------------------------
\* The members table and the SQL functions of the migration
\* ------------------------------------------------------------------------

\* array_fill(0, ARRAY[384]): the trigger's placeholder.
ZeroVector == Vec(<<0, 0>>, 0)

\* array_fill(0.1, ARRAY[384]): the placeholder of update_member_embeddings.
FillVector == Vec(<<1, 1>>, 1)

\* Embeddings the application layer stores for profiles (norm 1.0).
VecA == Vec(<<6, 8>>, 0)

VecB == Vec(<<0, 10>>, 0)

\* A vector of 2 dimensions.
VecShort == [head |-> <<6, 8>>, fill |-> 0, n |-> 0]

\* The embedding an INSERT or UPDATE statement supplies: none, or a vector.
EmbeddingInputs == {Null, Some(VecA), Some(VecB), Some(VecShort)}

\* A column that takes vectors of any dimension.
ColumnAcceptsAny(e) == TRUE

\* embedding vector(384): the column takes NULL and vectors of 384
\* dimensions; a statement that supplies another vector fails.
ColumnAccepts(e) == IF IsNull(e) THEN TRUE ELSE Dim(Get(e)) = EmbeddingDim

\* The profile texts members are created with.
Profiles ==
  { [name |-> <<"A", "b", "c">>, role |-> <<"c", "a", "b">>,
     description |-> Null, skills |-> << <<"b", "c", "a">> >>],
    [name |-> <<"A", "B", "x">>, role |-> <<"a", "b", " ", "c">>,
     description |-> Some(<<"x", "A", "B", "C", "x">>), skills |-> <<>>],
    [name |-> <<"x">>, role |-> <<>>,
     description |-> Null, skills |-> <<>>] }

\* A row of members.
Member(id, profile, embedding) ==
  [id |-> id, name |-> profile.name, role |-> profile.role,
   description |-> profile.description, skills |-> profile.skills,
   embedding |-> embedding]

\* A trigger function that returns the row as it came.
generate_nothing(new) == new

\* Trigger function generate_member_embedding, BEFORE INSERT OR UPDATE.
generate_member_embedding(new) ==
  IF IsNull(new.embedding)
    THEN [new EXCEPT !.embedding = Some(ZeroVector)]
    ELSE new

\* COALESCE(text, '').
Coalesce(o) == IF IsNull(o) THEN <<>> ELSE Get(o)

\* The search text update_member_embeddings builds for one row.
SearchText(m) ==
  Trim(m.name \o <<Space>> \o m.role \o <<Space>> \o Coalesce(m.description)
       \o (IF Len(m.skills) > 0 THEN <<Space>> \o Join(m.skills) ELSE <<>>))

\* update_member_embeddings(): the result for one row.  The UPDATE fires the
\* trigger, which leaves the non-NULL value alone.
UpdateMemberEmbeddingRow(m) ==
  IF /\ (IsNull(m.embedding) \/ m.embedding = Some(ZeroVector))
     /\ Len(SearchText(m)) >= 3
    THEN generate_member_embedding([m EXCEPT !.embedding = Some(FillVector)])
    ELSE m

\* similarity_threshold: 0.1, as performSemanticSearch passes it.
SimilarityThreshold == Score(1, 100)

\* match_score of a row with a non-NULL embedding: 1 - (embedding <=> q).
MatchScore(m, q) == CosineSimilarity(Get(m.embedding), q)

\* A WHERE clause without the threshold.
MatchesWhereAnyScore(m, q, threshold) == ~IsNull(m.embedding)

\* The WHERE clause of match_members (float8 >= in PostgreSQL's order).
MatchesWhere(m, q, threshold) ==
  /\ ~IsNull(m.embedding)
  /\ PgGeq(MatchScore(m, q), threshold)

\* ORDER BY m.embedding <=> q: ascending distance, NaN last.
DistanceBefore(sa, sb) == IsNaN(sb) \/ (~IsNaN(sa) /\ NumGeq(sa, sb))

\* One row of the table match_members returns.
MatchRow(m, q) ==
  [id |-> m.id, name |-> m.name, role |-> m.role,
   description |-> m.description, skills |-> m.skills,
   match_score |-> MatchScore(m, q)]

\* match_members(query_embedding, match_count, similarity_threshold): the
\* row sequences the SELECT may return over the table rows, as the statement
\* defines them (an exact scan; the approximate ivfflat index is left out).
match_members(rows, q, match_count, threshold) ==
  LET S == {i \in 1..Len(rows) : MatchesWhere(rows[i], q, threshold)}
      before == {ij \in S \X S :
                   DistanceBefore(MatchScore(rows[ij[1]], q), MatchScore(rows[ij[2]], q))}
  IN  {Limit([k \in 1..Cardinality(S) |-> MatchRow(rows[p[k]], q)], match_count) :
         p \in Orderings(S, before)}

\* ------------------------------------------------------------------------
\* performTextSearch
\* ------------------------------------------------------------------------

\* The search terms with the case of the query kept.
SearchTermsKeepingCase(query) == LongTerms(Split(query))

\* query.toLowerCase().split(' ').filter(term => term.length > 2)
SearchTerms(query) == LongTerms(Split(ToLowerCase(query)))

\* column ILIKE '%term%' on a nullable text column (no % or _ in a term).
ILike(column, term) ==
  ~IsNull(column) /\ Includes(ToLowerCase(Get(column)), ToLowerCase(term))

\* skills.cs.{term}: the array contains an element equal to term.
ArrayContains(skills, term) == \E k \in 1..Len(skills) : skills[k] = term

\* The .or(...) filter over the conditions of every term; no filter is
\* applied when there is no term.
OrFilter(m, terms) ==
  \/ Len(terms) = 0
  \/ \E t \in 1..Len(terms) :
       \/ ILike(Some(m.name), terms[t])
       \/ ILike(Some(m.role), terms[t])
       \/ ILike(m.description, terms[t])
       \/ ArrayContains(m.skills, terms[t])

\* Code point of a character, for ORDER BY name.
CharCode(c) ==
  CASE c = " " -> 32
    [] c = "A" -> 65
    [] c = "B" -> 66
    [] c = "C" -> 67
    [] c = "a" -> 97
    [] c = "b" -> 98
    [] c = "c" -> 99
    [] OTHER -> 120

\* a <= b in the order of ORDER BY name.
RECURSIVE TextLeq(_, _)
TextLeq(a, b) ==
  IF Len(a) = 0 THEN TRUE
  ELSE IF Len(b) = 0 THEN FALSE
  ELSE IF CharCode(a[1]) # CharCode(b[1]) THEN CharCode(a[1]) < CharCode(b[1])
  ELSE TextLeq(Tail(a), Tail(b))

\* The columns the select() of the text query projects.
TextRow(m) ==
  [id |-> m.id, name |-> m.name, role |-> m.role,
   description |-> m.description, skills |-> m.skills]

\* The row sequences the members query may return: the filtered rows in
\* name order, the first `limit` of them.
TextQuery(rows, terms, limit) ==
  LET S == {i \in 1..Len(rows) : OrFilter(rows[i], terms)}
      before == {ij \in S \X S : TextLeq(rows[ij[1]].name, rows[ij[2]].name)}
  IN  {Limit([k \in 1..Cardinality(S) |-> TextRow(rows[p[k]])], limit) :
         p \in Orderings(S, before)}

\* [name, role, description, ...skills].join(' ').toLowerCase()
MemberText(m) ==
  ToLowerCase(Join(<<m.name, m.role, Coalesce(m.description)>> \o m.skills))

\* The number of entries of terms that memberText includes.
RECURSIVE MatchedTerms(_, _)
MatchedTerms(memberText, terms) ==
  IF Len(terms) = 0
    THEN 0
    ELSE (IF Includes(memberText, Head(terms)) THEN 1 ELSE 0)
         + MatchedTerms(memberText, Tail(terms))

\* Math.min on two numbers.
ScoreMin(a, b) == IF NumGeq(a, b) THEN b ELSE a

\* The score without the cap.
TextScoreUncapped(memberText, terms) == Score(MatchedTerms(memberText, terms), 25)

\* score += 0.2 per matched term, then Math.min(score, 1.0).
TextScore(memberText, terms) ==
  ScoreMin(Score(MatchedTerms(memberText, terms), 25), ScoreOne)

\* A SearchResult.
Result(row, score) ==
  [id |-> row.id, name |-> row.name, role |-> row.role,
   description |-> row.description, skills |-> row.skills,
   similarity_score |-> score]

\* The position the stable sort by descending score gives element i of rs:
\* after every element that scores higher, and after the earlier elements
\* that score the same.
SortedPosition(rs, i) ==
  1 + Cardinality({j \in 1..Len(rs) :
        \/ ~NumGeq(rs[i].similarity_score, rs[j].similarity_score)
        \/ /\ j < i
           /\ NumGeq(rs[i].similarity_score, rs[j].similarity_score)
           /\ NumGeq(rs[j].similarity_score, rs[i].similarity_score)})

\* The scored rows left in the order of the query.
SortByScoreSkipped(rs) == rs

\* results.sort((a, b) => b.similarity_score - a.similarity_score): a stable
\* sort by descending score.
SortByScore(rs) ==
  [k \in 1..Len(rs) |-> rs[CHOOSE i \in 1..Len(rs) : SortedPosition(rs, i) = k]]

\* (members || []).map(member => ({ ...member, similarity_score })).
RECURSIVE ScoreRows(_, _)
ScoreRows(fetched, terms) ==
  IF Len(fetched) = 0
    THEN <<>>
    ELSE <<Result(Head(fetched), TextScore(MemberText(Head(fetched)), terms))>>
         \o ScoreRows(Tail(fetched), terms)

\* performTextSearch(supabase, query, limit) when the query succeeds: the
\* result lists it may return over the table rows.
performTextSearch(rows, query, limit) ==
  {SortByScore(scored) :
     scored \in {ScoreRows(fetched, SearchTerms(query)) :
                   fetched \in TextQuery(rows, SearchTerms(query), limit)}}

\* ------------------------------------------------------------------------
\* performSemanticSearch
\* ------------------------------------------------------------------------

\* match.match_score || 0.  A NaN float8 reaches the function as the JSON
\* string "NaN", which is truthy and is kept.
ScoreOrZero(s) == IF ~IsNaN(s) /\ s.num = 0 THEN ScoreZero ELSE s

\* performSemanticSearch(supabase, query, limit) once the embedding is there
\* and the RPC succeeds: the result lists it may return.
performSemanticSearch(rows, queryEmbedding, limit) ==
  {[k \in 1..Len(matches) |-> Result(matches[k], ScoreOrZero(matches[k].match_score))] :
     matches \in match_members(rows, queryEmbedding, limit, SimilarityThreshold)}

\* ------------------------------------------------------------------------
\* Requests
\* ------------------------------------------------------------------------

Abc == <<"a", "b", "c">>

\* The values of the "query" property of a request body.
QueryUndefined == [type |-> "undefined", text |-> <<>>]

QueryNumber == [type |-> "number", text |-> <<>>]

QueryString(text) == [type |-> "string", text |-> text]

QueryTexts ==
  { <<>>,
    <<"a", "b">>,
    <<" ", "a", "b", " ">>,
    <<"a", " ", "b">>,
    <<" ", "A", "b", "c", " ">>,
    <<"a", "b", "c", " ", "b", "c", "a">>,
    Abc \o <<" ">> \o Abc \o <<" ">> \o Abc \o <<" ">> \o Abc \o <<" ">> \o Abc
        \o <<" ">> \o Abc }

QueryInputs == {QueryUndefined, QueryNumber} \cup {QueryString(t) : t \in QueryTexts}

\* The values of the "limit" property: absent, or a non-negative integer.
LimitInputs == {Null, Some(0), Some(1), Some(51)}

\* What req.json() yields: a rejection, the value null, or an object.
BodyInvalid == [kind |-> "invalid", query |-> QueryUndefined, limit |-> Null]

BodyNull == [kind |-> "null", query |-> QueryUndefined, limit |-> Null]

BodyObject(q, l) == [kind |-> "object", query |-> q, limit |-> l]

BodyInputs ==
  {BodyInvalid, BodyNull} \cup {BodyObject(q, l) : q \in QueryInputs, l \in LimitInputs}

OtherMethods == {"GET", "PUT"}

\* The embeddings the gte-small model returns for a query (normalize: true).
QueryEmbeddings == {VecA, VecB}

\* Deno.env: which of SUPABASE_URL and SUPABASE_SERVICE_ROLE_KEY are set.
EnvStates ==
  {[url |-> TRUE, key |-> TRUE], [url |-> FALSE, key |-> TRUE],
   [url |-> TRUE, key |-> FALSE]}

\* ------------------------------------------------------------------------
\* Responses
\* ------------------------------------------------------------------------

\* corsHeaders
corsHeaders ==
  {"Access-Control-Allow-Origin", "Access-Control-Allow-Headers",
   "Access-Control-Allow-Methods"}

\* { ...corsHeaders, 'Content-Type': 'application/json' }
JsonHeaders == corsHeaders \cup {"Content-Type"}

\* A response: status, header names, and the JSON payload as the set of its
\* property names (keys) with the values of those present.
Response(status, headers, keys, success, error, query, results) ==
  [status |-> status, headers |-> headers, keys |-> keys, success |-> success,
   error |-> error, query |-> query, results |-> results, count |-> Len(results)]

NoResponse == Response(0, {}, {}, FALSE, "", <<>>, <<>>)

\* The preflight response without the CORS headers.
OptionsResponseNoCors == Response(200, {}, {}, FALSE, "", <<>>, <<>>)

\* new Response(null, { status: 200, headers: corsHeaders })
OptionsResponse == Response(200, corsHeaders, {}, FALSE, "", <<>>, <<>>)

\* The 405 and 400 responses: JSON.stringify({ error: message }).
PlainErrorResponse(status, message) ==
  Response(status, JsonHeaders, {"error"}, FALSE, message, <<>>, <<>>)

\* The outer catch: { success: false, error, timestamp }, status 500.
CaughtErrorResponse(message) ==
  Response(500, JsonHeaders, {"success", "error", "timestamp"}, FALSE, message,
           <<>>, <<>>)

\* A success payload that leaves the count out.
SuccessResponseNoCount(query, results) ==
  Response(200, JsonHeaders, {"success", "query", "results", "timestamp"},
           TRUE, "", query, results)

\* { success: true, query, results, count, timestamp }, status 200.
SuccessResponse(query, results) ==
  Response(200, JsonHeaders, {"success", "query", "results", "count", "timestamp"},
           TRUE, "", query, results)

\* Default and cap of the limit: Math.min(requestBody.limit || 10, 50).
DefaultLimit == 10

MaxLimit == 50

EffectiveLimit(l) ==
  Min(IF IsNull(l) \/ Get(l) = 0 THEN DefaultLimit ELSE Get(l), MaxLimit)

\* ------------------------------------------------------------------------
\* State
\* ------------------------------------------------------------------------

VARIABLES
  members,        \* the rows of the members table, by id
  env,            \* the environment variables that are set
  pc,             \* where the handler invocation stands
  request,        \* the request being handled
  query,          \* const query = requestBody.query.trim()
  limit,          \* const limit = Math.min(requestBody.limit || 10, 50)
  queryEmbedding, \* the embedding generateEmbedding returned, if any
  io,             \* what the invocation has touched so far
  response        \* the response returned

\* The profile-picture section of SemanticSearchPage, the storage objects of
\* the profile-pictures bucket and the signed-in member's row.
VARIABLES
  user,           \* the signed-in user, if any
  selectedFile,   \* useState: the file accepted by handleFileSelect
  fileInput,      \* the file the <input type="file"> holds
  previewUrl,     \* useState: the object URL of the selected file
  uploadError,    \* useState: the message shown, if any
  uploadSuccess,  \* useState: the success banner
  isUploading,    \* useState: handleFileUpload is running
  upload,         \* the running handleFileUpload: its step, file and path
  objects,        \* the objects stored in the bucket, by path
  profilePicture, \* members.profile_picture of the signed-in member
  uploadsStarted, \* how many uploads were started (orders Date.now())
  successTimers   \* pending setTimeout(() => setUploadSuccess(false))

\* The search terms of one text search.
VARIABLES
  termsQuery,     \* the query handed to performTextSearch
  searchTerms     \* const searchTerms, once computed

\* The storage buckets and the run of setup-storage.js.
VARIABLES
  buckets,        \* the buckets of the project, by name
  setup           \* the run of setupStorage: its step and what it listed

\* The search box of SemanticSearchPage.
VARIABLES
  searchQuery,      \* useState: the value of the search input
  searchResults,    \* useState: the results shown
  isSearching,      \* useState: the spinner
  searchError,      \* useState: the error shown, if any
  hasSearched,      \* useState: the results section is shown
  timers,           \* the pending setTimeout callbacks, each with its query
  searchTimeoutRef, \* useRef: the id of the timer set last
  requests,         \* the fetches issued, each pending or answered
  keystrokes,       \* how many change events the input has had
  clock,            \* the time in milliseconds
  changedAt         \* the time of the last change event

\* The crop dialog ProfilePictureUpload.
VARIABLES
  imgSrc,           \* useState: the data URL of the picked image, '' when none
  completedCrop,    \* useState: the crop the user completed, if any
  croppedImageUrl,  \* useState: the object URL of the cropped image, '' when none
  reading,          \* the FileReader loads under way
  cropping,         \* the getCroppedImg promises not yet resolved
  imageUpdates,     \* the arguments onImageUpdate was called with
  picks,            \* how many files were picked
  crops             \* how many times Apply Crop was pressed

\* MemberDetailPage, editing the description and the skills.
VARIABLES
  member,               \* useState: the member shown
  loading,              \* useState: the tag of the save under way, if any
  isEditingDescription, \* useState
  editDescription,      \* useState
  isEditingSkills,      \* useState
  editSkills,           \* useState
  newSkill,             \* useState
  saves,                \* the updates awaited, each with what its handler captured
  savesStarted,         \* how many saves were started
  updateError,          \* whether the update that returned last had an error
  memberRow             \* the member's row of the members table

searchVars == <<members, env, pc, request, query, limit, queryEmbedding, io, response>>

pageVars ==
  <<searchQuery, searchResults, isSearching, searchError, hasSearched, timers,
    searchTimeoutRef, requests, keystrokes, clock, changedAt>>

cropVars ==
  <<imgSrc, completedCrop, croppedImageUrl, reading, cropping, imageUpdates, picks,
    crops>>

detailVars ==
  <<member, loading, isEditingDescription, editDescription, isEditingSkills,
    editSkills, newSkill, saves, savesStarted, updateError, memberRow>>

uploadVars ==
  <<user, selectedFile, fileInput, previewUrl, uploadError, uploadSuccess,
    isUploading, upload, objects, profilePicture, uploadsStarted, successTimers>>

termVars == <<termsQuery, searchTerms>>

storageVars == <<buckets, setup>>

vars == <<searchVars, uploadVars, termVars, storageVars, pageVars, cropVars, detailVars>>

NoRequest == [method |-> "NONE", body |-> BodyInvalid]

\* Nothing touched: environment not consulted, body not read, no backend
\* call issued, no search path entered, no response returned.
NoIo ==
  [envRead |-> FALSE, bodyRead |-> FALSE, embed |-> 0, rpc |-> 0, text |-> 0,
   semantic |-> 0, fallback |-> 0, semanticThrew |-> FALSE, textThrew |-> FALSE,
   responses |-> 0]

\* The profile of a row that was in the table before the trigger existed.
LegacyProfile ==
  [name |-> <<"A", "b", "c">>, role |-> <<"c", "a", "b">>,
   description |-> Null, skills |-> << <<"b", "c", "a">> >>]

\* The table when the trigger is created: empty, or one row whose
\* embedding column, just added, is NULL.
LegacyTables == {<<>>, <<Member(1, LegacyProfile, Null)>>}

\* No handleFileUpload is running.
NoUpload == [pc |-> "idle", file |-> Null, path |-> Null]

\* setupStorage has not been started.
NoSetup == [pc |-> "idle", listed |-> {}, runs |-> 0, creates |-> 0, outcome |-> "none"]

\* The edge function with an empty table and no request.
SearchAtRest ==
  /\ members = <<>>
  /\ env = [url |-> TRUE, key |-> TRUE]
  /\ pc = "idle"
  /\ request = NoRequest
  /\ query = <<>>
  /\ limit = 0
  /\ queryEmbedding = Null
  /\ io = NoIo
  /\ response = NoResponse

\* The page as mounted by nobody: the useState defaults, an empty bucket.
UploadAtRest ==
  /\ user = Null
  /\ selectedFile = Null
  /\ fileInput = Null
  /\ previewUrl = Null
  /\ uploadError = Null
  /\ uploadSuccess = FALSE
  /\ isUploading = FALSE
  /\ upload = NoUpload
  /\ objects = {}
  /\ profilePicture = Null
  /\ uploadsStarted = 0
  /\ successTimers = 0

\* The search box as mounted: the useState defaults, no timer, no fetch.
PageAtRest ==
  /\ searchQuery = <<>>
  /\ searchResults = <<>>
  /\ isSearching = FALSE
  /\ searchError = Null
  /\ hasSearched = FALSE
  /\ timers = {}
  /\ searchTimeoutRef = Null
  /\ requests = <<>>
  /\ keystrokes = 0
  /\ clock = 0
  /\ changedAt = 0

\* The crop dialog as mounted: the useState defaults.
CropAtRest ==
  /\ imgSrc = Null
  /\ completedCrop = Null
  /\ croppedImageUrl = Null
  /\ reading = {}
  /\ cropping = {}
  /\ imageUpdates = <<>>
  /\ picks = 0
  /\ crops = 0

\* The member page as mounted: the useState defaults.
DetailAtRest ==
  /\ member = Null
  /\ loading = Null
  /\ isEditingDescription = FALSE
  /\ editDescription = <<>>
  /\ isEditingSkills = FALSE
  /\ editSkills = <<>>
  /\ newSkill = <<>>
  /\ saves = {}
  /\ savesStarted = 0
  /\ updateError = Null
  /\ memberRow = Null

\* No text search under way.
TermsAtRest ==
  /\ termsQuery = <<>>
  /\ searchTerms = Null

\* A project without buckets on which the script has not run.
StorageAtRest ==
  /\ buckets = {}
  /\ setup = NoSetup

Init ==
  /\ members \in LegacyTables
  /\ env \in EnvStates
  /\ pc = "idle"
  /\ request = NoRequest
  /\ query = <<>>
  /\ limit = 0
  /\ queryEmbedding = Null
  /\ io = NoIo
  /\ response = NoResponse
  /\ UploadAtRest
  /\ TermsAtRest
  /\ StorageAtRest
  /\ PageAtRest
  /\ CropAtRest
  /\ DetailAtRest

\* ------------------------------------------------------------------------
\* Writes to the members table
\* ------------------------------------------------------------------------

\* INSERT INTO members: the trigger runs on the new row.
InsertMember ==
  /\ pc = "idle"
  /\ Len(members) < MaxMembers
  /\ \E p \in Profiles, e \in EmbeddingInputs :
       /\ ColumnAccepts(e)
       /\ members' = Append(members,
                            generate_member_embedding(Member(Len(members) + 1, p, e)))
  /\ UNCHANGED <<pageVars, cropVars, detailVars, uploadVars, termVars, storageVars, env, pc, request, query, limit, queryEmbedding, io, response>>

\* UPDATE members SET embedding = e WHERE id = i: the trigger runs on the row.
UpdateMember ==
  /\ pc = "idle"
  /\ \E i \in 1..Len(members), e \in EmbeddingInputs :
       /\ ColumnAccepts(e)
       /\ members' = [members EXCEPT
                        ![i] = generate_member_embedding([@ EXCEPT !.embedding = e])]
       /\ members' # members
  /\ UNCHANGED <<pageVars, cropVars, detailVars, uploadVars, termVars, storageVars, env, pc, request, query, limit, queryEmbedding, io, response>>

\* SELECT update_member_embeddings().
UpdateMemberEmbeddings ==
  /\ pc = "idle"
  /\ members' = [i \in 1..Len(members) |-> UpdateMemberEmbeddingRow(members[i])]
  /\ members' # members
  /\ UNCHANGED <<pageVars, cropVars, detailVars, uploadVars, termVars, storageVars, env, pc, request, query, limit, queryEmbedding, io, response>>

\* ------------------------------------------------------------------------
\* The Deno.serve handler
\* ------------------------------------------------------------------------

\* Orchestrate without the fallback: a failure of the semantic path ends
\* the request.
OrchestratePropagate(at, outcome) ==
  CASE at = "embedding" /\ outcome = "ok" -> "rpc"
    [] at = "embedding" /\ outcome = "throw" -> "done"
    [] at = "rpc" /\ outcome = "ok" -> "done"
    [] at = "rpc" /\ outcome = "throw" -> "done"
    [] at = "text" /\ outcome = "ok" -> "done"
    [] at = "text" /\ outcome = "throw" -> "done"

\* Orchestrate with a retry: a failure of the text path starts over.
OrchestrateRetry(at, outcome) ==
  CASE at = "embedding" /\ outcome = "ok" -> "rpc"
    [] at = "embedding" /\ outcome = "throw" -> "text"
    [] at = "rpc" /\ outcome = "ok" -> "done"
    [] at = "rpc" /\ outcome = "throw" -> "text"
    [] at = "text" /\ outcome = "ok" -> "done"
    [] at = "text" /\ outcome = "throw" -> "embedding"

\* The nested try/catch around the two searches: where the handler goes
\* from the call it awaits (at) when that call returns ("ok") or throws.
Orchestrate(at, outcome) ==
  CASE at = "embedding" /\ outcome = "ok" -> "rpc"
    [] at = "embedding" /\ outcome = "throw" -> "text"
    [] at = "rpc" /\ outcome = "ok" -> "done"
    [] at = "rpc" /\ outcome = "throw" -> "text"
    [] at = "text" /\ outcome = "ok" -> "done"
    [] at = "text" /\ outcome = "throw" -> "done"

\* The bookkeeping of moving on from the awaited call `at` to `next`: the
\* call a search path issues on entry, and the response on the way out.
Enter(at, outcome, next) ==
  [io EXCEPT
     !.semanticThrew = @ \/ (at \in {"embedding", "rpc"} /\ outcome = "throw"),
     !.textThrew = @ \/ (at = "text" /\ outcome = "throw"),
     !.semantic = IF next = "embedding" THEN @ + 1 ELSE @,
     !.embed = IF next = "embedding" THEN @ + 1 ELSE @,
     !.rpc = IF next = "rpc" THEN @ + 1 ELSE @,
     !.fallback = IF next = "text" THEN @ + 1 ELSE @,
     !.text = IF next = "text" THEN @ + 1 ELSE @,
     !.responses = IF next = "done" THEN @ + 1 ELSE @]

\* A response returned before the search starts.
Return(r, envRead, bodyRead) ==
  /\ response' = r
  /\ pc' = "done"
  /\ io' = [io EXCEPT !.envRead = envRead, !.bodyRead = bodyRead, !.responses = @ + 1]
  /\ UNCHANGED <<pageVars, cropVars, detailVars, uploadVars, termVars, storageVars, members, env, query, limit, queryEmbedding>>

\* Bodies sent along with requests of other methods.
OtherBodies == {BodyInvalid, BodyObject(QueryString(Abc), Null)}

\* if (req.method === 'OPTIONS')
HandleOptions ==
  /\ pc = "idle"
  /\ \E b \in OtherBodies : request' = [method |-> "OPTIONS", body |-> b]
  /\ Return(OptionsResponse, FALSE, FALSE)

\* if (req.method !== 'POST')
RejectMethod ==
  /\ pc = "idle"
  /\ \E m \in OtherMethods, b \in OtherBodies : request' = [method |-> m, body |-> b]
  /\ Return(PlainErrorResponse(405, "Method not allowed. Use POST."), FALSE, FALSE)

EnvComplete == env.url /\ env.key

\* if (!supabaseUrl || !supabaseServiceKey) throw ..., caught by the outer catch.
MissingEnvironment ==
  /\ pc = "idle"
  /\ ~EnvComplete
  /\ \E b \in BodyInputs : request' = [method |-> "POST", body |-> b]
  /\ Return(CaughtErrorResponse("Missing Supabase environment variables"), TRUE, FALSE)

\* req.json() rejects.
InvalidJson ==
  /\ pc = "idle"
  /\ EnvComplete
  /\ request' = [method |-> "POST", body |-> BodyInvalid]
  /\ Return(PlainErrorResponse(400, "Invalid JSON in request body"), TRUE, TRUE)

\* req.json() yields null: requestBody.query throws a TypeError, which the
\* outer catch turns into a response.
NullBody ==
  /\ pc = "idle"
  /\ EnvComplete
  /\ request' = [method |-> "POST", body |-> BodyNull]
  /\ Return(CaughtErrorResponse("TypeError"), TRUE, TRUE)

\* !requestBody.query || typeof requestBody.query !== 'string'
QueryInvalid(q) == q.type # "string" \/ Len(q.text) = 0

InvalidQuery ==
  /\ pc = "idle"
  /\ EnvComplete
  /\ \E q \in QueryInputs, l \in LimitInputs :
       /\ QueryInvalid(q)
       /\ request' = [method |-> "POST", body |-> BodyObject(q, l)]
  /\ Return(PlainErrorResponse(400, "Missing or invalid \"query\" field in request body"),
            TRUE, TRUE)

\* The length check off by one.
QueryTooShortOffByOne(q) == Len(Trim(q.text)) < 2

\* if (query.length < 3)
QueryTooShort(q) == Len(Trim(q.text)) < 3

ShortQuery ==
  /\ pc = "idle"
  /\ EnvComplete
  /\ \E q \in QueryInputs, l \in LimitInputs :
       /\ ~QueryInvalid(q)
       /\ QueryTooShort(q)
       /\ request' = [method |-> "POST", body |-> BodyObject(q, l)]
  /\ Return(PlainErrorResponse(400, "Query must be at least 3 characters long"),
            TRUE, TRUE)

\* A valid request: performSemanticSearch is entered and awaits
\* generateEmbedding(query).
StartSearch ==
  /\ pc = "idle"
  /\ EnvComplete
  /\ \E q \in QueryInputs, l \in LimitInputs :
       /\ ~QueryInvalid(q)
       /\ ~QueryTooShort(q)
       /\ request' = [method |-> "POST", body |-> BodyObject(q, l)]
       /\ query' = Trim(q.text)
       /\ limit' = EffectiveLimit(l)
  /\ pc' = "embedding"
  /\ io' = [Enter("idle", "ok", "embedding") EXCEPT !.envRead = TRUE, !.bodyRead = TRUE]
  /\ UNCHANGED <<pageVars, cropVars, detailVars, uploadVars, termVars, storageVars, members, env, queryEmbedding, response>>

\* The step out of the awaited call `at`: the handler moves where the
\* try/catch nesting sends it and, when that ends the request, returns r.
Step(at, outcome, r) ==
  LET next == Orchestrate(at, outcome)
  IN  /\ pc = at
      /\ pc' = next
      /\ io' = Enter(at, outcome, next)
      /\ response' = IF next = "done" THEN r ELSE response
      /\ UNCHANGED <<pageVars, cropVars, detailVars, uploadVars, termVars, storageVars, members, env, request, query, limit>>

\* generateEmbedding returns a vector; supabase.rpc('match_members') is issued.
EmbeddingReturns ==
  /\ \E v \in QueryEmbeddings : queryEmbedding' = Some(v)
  /\ Step("embedding", "ok", CaughtErrorResponse("unreachable"))

\* generateEmbedding throws 'Failed to generate embedding'.
EmbeddingThrows ==
  /\ queryEmbedding' = queryEmbedding
  /\ Step("embedding", "throw", CaughtErrorResponse("Failed to generate embedding"))

\* The RPC returns rows; the handler returns them as the results.
RpcReturns ==
  /\ pc = "rpc"
  /\ queryEmbedding' = queryEmbedding
  /\ \E results \in performSemanticSearch(members, Get(queryEmbedding), limit) :
       Step("rpc", "ok", SuccessResponse(query, results))

\* The RPC returns an error, which performSemanticSearch throws; its local
\* queryEmbedding is gone with it.
RpcThrows ==
  /\ queryEmbedding' = Null
  /\ Step("rpc", "throw", CaughtErrorResponse("match_members error"))

\* results = await performTextSearch(supabase, query, limit) in the handler.
FallbackSearch(rows, q, l) == performTextSearch(rows, q, l)

\* The members query returns rows; the handler returns the scored results.
TextReturns ==
  /\ pc = "text"
  /\ queryEmbedding' = queryEmbedding
  /\ \E results \in FallbackSearch(members, query, limit) :
       Step("text", "ok", SuccessResponse(query, results))

\* The members query returns an error: both searches failed.
TextThrows ==
  /\ queryEmbedding' = queryEmbedding
  /\ Step("text", "throw",
          CaughtErrorResponse("Search functionality is currently unavailable"))

\* An invocation that leaves the query embedding behind for the next one.
FinishKeepingEmbedding ==
  /\ pc = "done"
  /\ pc' = "idle"
  /\ request' = NoRequest
  /\ query' = <<>>
  /\ limit' = 0
  /\ io' = NoIo
  /\ response' = NoResponse
  /\ UNCHANGED <<pageVars, cropVars, detailVars, uploadVars, termVars, storageVars, members, env, queryEmbedding>>

\* The invocation is over; the next request starts from scratch.
Finish ==
  /\ pc = "done"
  /\ pc' = "idle"
  /\ request' = NoRequest
  /\ query' = <<>>
  /\ limit' = 0
  /\ queryEmbedding' = Null
  /\ io' = NoIo
  /\ response' = NoResponse
  /\ UNCHANGED <<pageVars, cropVars, detailVars, uploadVars, termVars, storageVars, members, env>>

Next ==
  \/ InsertMember
  \/ UpdateMember
  \/ UpdateMemberEmbeddings
  \/ HandleOptions
  \/ RejectMethod
  \/ MissingEnvironment
  \/ InvalidJson
  \/ NullBody
  \/ InvalidQuery
  \/ ShortQuery
  \/ StartSearch
  \/ EmbeddingReturns
  \/ EmbeddingThrows
  \/ RpcReturns
  \/ RpcThrows
  \/ TextReturns
  \/ TextThrows
  \/ Finish

Spec == Init /\ [][Next]_vars

\* ------------------------------------------------------------------------
\* Profile-picture upload on the search page
\* ------------------------------------------------------------------------

\* How many uploads one exploration starts.
MaxUploads == 2

\* const maxSize = 5 * 1024 * 1024
MaxFileSize == 5242880

\* const allowedTypes
allowedTypes == {"image/jpeg", "image/jpg", "image/png"}

\* A File: its MIME type, its size in bytes and the extension of its name.
File(type, size, extension) == [type |-> type, size |-> size, extension |-> extension]

\* The files a user picks: three that pass both checks (one of them exactly
\* 5 MB), one that is one byte too large, one of another type.
FileInputs ==
  {File("image/jpeg", 1, "jpg"),
   File("image/jpg", 1, "jpeg"),
   File("image/png", MaxFileSize, "png"),
   File("image/png", MaxFileSize + 1, "png"),
   File("image/gif", 1, "gif")}

UserId == 1

\* `profiles/${user.id}-${Date.now()}.${fileExtension}`; successive uploads
\* read successive times.
FilePath(id, time, extension) == [user |-> id, time |-> time, extension |-> extension]

\* getPublicUrl(filePath).data.publicUrl
PublicUrl(path) == [bucket |-> "profile-pictures", path |-> path]

\* The picture the member had before, if any.
OldPicture == [bucket |-> "profile-pictures", path |-> FilePath(UserId, 0, "png")]

\* error instanceof Error ? error.message : 'Upload failed. Please try again.'
StorageErrorMessages == {"storage error"}

UpdateErrorMessages == {"postgrest error", "Upload failed. Please try again."}

UploadInit ==
  /\ SearchAtRest
  /\ TermsAtRest
  /\ StorageAtRest
  /\ PageAtRest
  /\ CropAtRest
  /\ DetailAtRest
  /\ user \in {Null, Some(UserId)}
  /\ selectedFile = Null
  /\ fileInput = Null
  /\ previewUrl = Null
  /\ uploadError = Null
  /\ uploadSuccess = FALSE
  /\ isUploading = FALSE
  /\ upload = NoUpload
  /\ objects = {}
  /\ profilePicture \in {Null, Some(OldPicture)}
  /\ uploadsStarted = 0
  /\ successTimers = 0

\* handleFileSelect with every check passed over: whatever is picked is
\* selected.
HandleFileSelectUnchecked ==
  /\ \E f \in FileInputs :
       /\ fileInput # Some(f)
       /\ fileInput' = Some(f)
       /\ selectedFile' = Some(f)
       /\ uploadError' = Null
       /\ uploadSuccess' = FALSE
       /\ previewUrl' = Some(f)
  /\ UNCHANGED <<pageVars, cropVars, detailVars, searchVars, termVars, storageVars, user, isUploading, upload,
                 objects, profilePicture, uploadsStarted, successTimers>>

\* handleFileSelect dropping the selection when it rejects a file.
HandleFileSelectClearing ==
  /\ \E f \in FileInputs :
       /\ fileInput # Some(f)
       /\ fileInput' = Some(f)
       /\ IF f.type \notin {"image/jpeg", "image/jpg", "image/png"} \/ f.size > 5242880
            THEN /\ uploadError' = Some("rejected")
                 /\ selectedFile' = Null
                 /\ previewUrl' = Null
                 /\ UNCHANGED uploadSuccess
            ELSE /\ selectedFile' = Some(f)
                 /\ uploadError' = Null
                 /\ uploadSuccess' = FALSE
                 /\ previewUrl' = Some(f)
  /\ UNCHANGED <<pageVars, cropVars, detailVars, searchVars, termVars, storageVars, user, isUploading, upload,
                 objects, profilePicture, uploadsStarted, successTimers>>

\* handleFileSelect: a change event of the file input, which fires when the
\* user picks a file other than the one the input holds.
HandleFileSelect ==
  /\ \E f \in FileInputs :
       /\ fileInput # Some(f)
       /\ fileInput' = Some(f)
       /\ IF f.type \notin allowedTypes
            THEN /\ uploadError' = Some("Please select a valid image file (.jpg, .jpeg, or .png)")
                 /\ UNCHANGED <<selectedFile, uploadSuccess, previewUrl>>
          ELSE IF f.size > MaxFileSize
            THEN /\ uploadError' = Some("File size must be less than 5MB")
                 /\ UNCHANGED <<selectedFile, uploadSuccess, previewUrl>>
          ELSE /\ selectedFile' = Some(f)
               /\ uploadError' = Null
               /\ uploadSuccess' = FALSE
               /\ previewUrl' = Some(f)
  /\ UNCHANGED <<pageVars, cropVars, detailVars, searchVars, termVars, storageVars, user, isUploading, upload,
                 objects, profilePicture, uploadsStarted, successTimers>>

\* handleFileSelect when the change event carries no file.
SelectNoFile ==
  /\ UNCHANGED vars

\* clearFileSelection; its button is rendered while a file is selected.
ClearFileSelection ==
  /\ ~IsNull(selectedFile)
  /\ selectedFile' = Null
  /\ fileInput' = Null
  /\ previewUrl' = Null
  /\ uploadError' = Null
  /\ uploadSuccess' = FALSE
  /\ UNCHANGED <<pageVars, cropVars, detailVars, searchVars, termVars, storageVars, user, isUploading, upload,
                 objects, profilePicture, uploadsStarted, successTimers>>

\* handleFileUpload with no file selected or nobody signed in: it returns.
UploadIgnored ==
  /\ ~isUploading
  /\ IsNull(selectedFile) \/ IsNull(user)
  /\ UNCHANGED vars

\* handleFileUpload up to its first await: the button is enabled, the path
\* is built and the upload of the blob is issued.
StartUpload ==
  /\ ~isUploading
  /\ ~IsNull(selectedFile)
  /\ ~IsNull(user)
  /\ uploadsStarted < MaxUploads
  /\ uploadsStarted' = uploadsStarted + 1
  /\ isUploading' = TRUE
  /\ uploadError' = Null
  /\ upload' = [pc |-> "uploading", file |-> selectedFile,
                path |-> Some(FilePath(Get(user), uploadsStarted + 1,
                                       Get(selectedFile).extension))]
  /\ UNCHANGED <<pageVars, cropVars, detailVars, searchVars, termVars, storageVars, user, fileInput, selectedFile, previewUrl,
                 uploadSuccess, objects, profilePicture, successTimers>>

\* upload(filePath, selectedFile, { upsert: true }) stores the blob.
StoreObject(stored, path, file) ==
  {o \in stored : o.path # path} \cup {[path |-> path, file |-> file]}

\* catch and finally: the message is shown, the button is enabled again.
Fail(message) ==
  /\ uploadError' = Some(message)
  /\ isUploading' = FALSE
  /\ upload' = NoUpload

\* The blob upload answers with an error.
UploadFails ==
  /\ upload.pc = "uploading"
  /\ \E message \in StorageErrorMessages : Fail(message)
  /\ UNCHANGED <<pageVars, cropVars, detailVars, searchVars, termVars, storageVars, user, fileInput, selectedFile, previewUrl,
                 uploadSuccess, objects, profilePicture, uploadsStarted, successTimers>>

\* The blob is stored, the public URL is there, the row update is issued.
UploadStored ==
  /\ upload.pc = "uploading"
  /\ objects' = StoreObject(objects, Get(upload.path), Get(upload.file))
  /\ upload' = [upload EXCEPT !.pc = "updating"]
  /\ UNCHANGED <<pageVars, cropVars, detailVars, searchVars, termVars, storageVars, user, fileInput, selectedFile, previewUrl,
                 uploadError, uploadSuccess, isUploading, profilePicture,
                 uploadsStarted, successTimers>>

\* The blob is stored, but getPublicUrl yields no URL.
PublicUrlMissing ==
  /\ upload.pc = "uploading"
  /\ objects' = StoreObject(objects, Get(upload.path), Get(upload.file))
  /\ Fail("Failed to get public URL")
  /\ UNCHANGED <<pageVars, cropVars, detailVars, searchVars, termVars, storageVars, user, fileInput, selectedFile, previewUrl,
                 uploadSuccess, profilePicture, uploadsStarted, successTimers>>

\* The row update answers with an error, and the stored blob is removed.
UpdateFailsWithRollback ==
  /\ upload.pc = "updating"
  /\ \E message \in UpdateErrorMessages : Fail(message)
  /\ objects' = {o \in objects : o.path # Get(upload.path)}
  /\ UNCHANGED <<pageVars, cropVars, detailVars, searchVars, termVars, storageVars, user, fileInput, selectedFile, previewUrl,
                 uploadSuccess, profilePicture, uploadsStarted, successTimers>>

\* The row update answers with an error.
UpdateFails ==
  /\ upload.pc = "updating"
  /\ \E message \in UpdateErrorMessages : Fail(message)
  /\ UNCHANGED <<pageVars, cropVars, detailVars, searchVars, termVars, storageVars, user, fileInput, selectedFile, previewUrl,
                 uploadSuccess, objects, profilePicture, uploadsStarted, successTimers>>

\* The row is updated: banner on, selection cleared, timer started.
UpdateSucceeds ==
  /\ upload.pc = "updating"
  /\ profilePicture' = Some(PublicUrl(Get(upload.path)))
  /\ uploadSuccess' = TRUE
  /\ selectedFile' = Null
  /\ previewUrl' = Null
  /\ successTimers' = successTimers + 1
  /\ isUploading' = FALSE
  /\ upload' = NoUpload
  /\ UNCHANGED <<pageVars, cropVars, detailVars, searchVars, termVars, storageVars, user, fileInput, uploadError, objects,
                 uploadsStarted>>

\* setTimeout(() => setUploadSuccess(false), 3000) fires.
SuccessTimerFires ==
  /\ successTimers > 0
  /\ successTimers' = successTimers - 1
  /\ uploadSuccess' = FALSE
  /\ UNCHANGED <<pageVars, cropVars, detailVars, searchVars, termVars, storageVars, user, fileInput, selectedFile, previewUrl,
                 uploadError, isUploading, upload, objects, profilePicture,
                 uploadsStarted>>

UploadNext ==
  \/ HandleFileSelect
  \/ SelectNoFile
  \/ ClearFileSelection
  \/ UploadIgnored
  \/ StartUpload
  \/ UploadFails
  \/ UploadStored
  \/ PublicUrlMissing
  \/ UpdateFails
  \/ UpdateSucceeds
  \/ SuccessTimerFires

SpecUpload == UploadInit /\ [][UploadNext]_vars

\* ------------------------------------------------------------------------
\* The search terms of performTextSearch, on their own
\* ------------------------------------------------------------------------

\* The longest query explored.
MaxQueryLen == 5

\* The characters of the queries explored.
QueryChars == {"a", "B", Space, Tab}

\* The sequences over S of length n.
Strings(S, n) == [1..n -> S]

\* What the handler passes to performTextSearch: a trimmed query of at
\* least 3 characters.
TermQueries ==
  {q \in UNION {Strings(QueryChars, n) : n \in 3..MaxQueryLen} : Trim(q) = q}

TermsInit ==
  /\ SearchAtRest
  /\ UploadAtRest
  /\ StorageAtRest
  /\ PageAtRest
  /\ CropAtRest
  /\ DetailAtRest
  /\ termsQuery \in TermQueries
  /\ searchTerms = Null

\* The first statement of performTextSearch.
ComputeSearchTerms ==
  /\ IsNull(searchTerms)
  /\ searchTerms' = Some(SearchTerms(termsQuery))
  /\ UNCHANGED <<pageVars, cropVars, detailVars, searchVars, uploadVars, storageVars, termsQuery>>

TermsNext == ComputeSearchTerms

SpecTerms == TermsInit /\ [][TermsNext]_vars

\* ------------------------------------------------------------------------
\* scripts/setup-storage.js
\* ------------------------------------------------------------------------

\* How many times the script is run.
MaxRuns == 2

\* A bucket: its name, whether it is public, its file size limit and its
\* MIME allowlist (both optional).
Bucket(name, public, fileSizeLimit, allowedMimeTypes) ==
  [name |-> name, public |-> public, fileSizeLimit |-> fileSizeLimit,
   allowedMimeTypes |-> allowedMimeTypes]

\* A bucket created private.
NewBucketPrivate ==
  Bucket("profile-pictures", FALSE, Some(5242880),
         Some({"image/jpeg", "image/png", "image/webp", "image/gif"}))

\* createBucket('profile-pictures', { public, fileSizeLimit, allowedMimeTypes })
NewBucket ==
  Bucket("profile-pictures", TRUE, Some(5242880),
         Some({"image/jpeg", "image/png", "image/webp", "image/gif"}))

\* The buckets other hands (the dashboard, another script) have created.
BucketInputs ==
  {Bucket("avatars", TRUE, Null, Null),
   Bucket("documents", FALSE, Some(1024), Null),
   Bucket("profile-pictures", FALSE, Null, Null),
   Bucket("profile-pictures", TRUE, Some(1024), Some({"image/png"})),
   NewBucket}

BucketNames(bs) == {b.name : b \in bs}

\* buckets.some(bucket => bucket.name === 'profile-pictures')
bucketExists(names) == "profile-pictures" \in names

StorageInit ==
  /\ SearchAtRest
  /\ UploadAtRest
  /\ TermsAtRest
  /\ PageAtRest
  /\ CropAtRest
  /\ DetailAtRest
  /\ buckets \in {bs \in SUBSET BucketInputs :
                    Cardinality(BucketNames(bs)) = Cardinality(bs)}
  /\ setup = NoSetup

\* The script is started: listBuckets() is issued.
StartSetup ==
  /\ setup.pc = "idle"
  /\ setup.runs < MaxRuns
  /\ setup' = [setup EXCEPT !.pc = "listing", !.runs = @ + 1, !.listed = {},
                            !.outcome = "none"]
  /\ UNCHANGED <<pageVars, cropVars, detailVars, searchVars, uploadVars, termVars, buckets>>

\* listBuckets() answers with an error: the script logs it and returns.
ListFails ==
  /\ setup.pc = "listing"
  /\ setup' = [setup EXCEPT !.pc = "idle", !.outcome = "listError"]
  /\ UNCHANGED <<pageVars, cropVars, detailVars, searchVars, uploadVars, termVars, buckets>>

\* listBuckets() answers with the buckets: the script is done when
\* profile-pictures is among them, and issues createBucket when it is not.
ListReturns ==
  /\ setup.pc = "listing"
  /\ IF bucketExists(BucketNames(buckets))
       THEN setup' = [setup EXCEPT !.pc = "idle", !.listed = BucketNames(buckets),
                                   !.outcome = "exists"]
       ELSE setup' = [setup EXCEPT !.pc = "creating", !.listed = BucketNames(buckets),
                                   !.creates = @ + 1]
  /\ UNCHANGED <<pageVars, cropVars, detailVars, searchVars, uploadVars, termVars, buckets>>

\* createBucket() creates the bucket, which no one created meanwhile.
CreateSucceeds ==
  /\ setup.pc = "creating"
  /\ NewBucket.name \notin BucketNames(buckets)
  /\ buckets' = buckets \cup {NewBucket}
  /\ setup' = [setup EXCEPT !.pc = "idle", !.outcome = "created"]
  /\ UNCHANGED <<pageVars, cropVars, detailVars, searchVars, uploadVars, termVars>>

\* createBucket() answers with an error (the bucket exists by now, or the
\* service refuses): the script logs it and returns.
CreateFails ==
  /\ setup.pc = "creating"
  /\ setup' = [setup EXCEPT !.pc = "idle", !.outcome = "createError"]
  /\ UNCHANGED <<pageVars, cropVars, detailVars, searchVars, uploadVars, termVars, buckets>>

\* A call throws instead of answering: the catch block logs the failure.
\* A createBucket that throws may have created the bucket all the same.
SetupThrows ==
  /\ setup.pc \in {"listing", "creating"}
  /\ setup' = [setup EXCEPT !.pc = "idle", !.outcome = "failed"]
  /\ \/ buckets' = buckets
     \/ /\ setup.pc = "creating"
        /\ NewBucket.name \notin BucketNames(buckets)
        /\ buckets' = buckets \cup {NewBucket}
  /\ UNCHANGED <<pageVars, cropVars, detailVars, searchVars, uploadVars, termVars>>

\* Another hand creates a bucket named profile-pictures.
OtherCreates ==
  /\ \E b \in BucketInputs :
       /\ b.name = "profile-pictures"
       /\ b.name \notin BucketNames(buckets)
       /\ buckets' = buckets \cup {b}
  /\ UNCHANGED <<pageVars, cropVars, detailVars, searchVars, uploadVars, termVars, setup>>

StorageNext ==
  \/ StartSetup
  \/ ListFails
  \/ ListReturns
  \/ CreateSucceeds
  \/ CreateFails
  \/ SetupThrows
  \/ OtherCreates

SpecStorage == StorageInit /\ [][StorageNext]_vars

\* ------------------------------------------------------------------------
\* Properties
\* ------------------------------------------------------------------------

Done == pc = "done"

Succeeded == Done /\ response.status = 200 /\ "success" \in response.keys /\ response.success

\* The request passed every check that precedes the search.
ValidSearchRequest ==
  /\ request.method = "POST"
  /\ EnvComplete
  /\ request.body.kind = "object"
  /\ request.body.query.type = "string"
  /\ Len(Trim(request.body.query.text)) >= 3

\* The results come from the semantic path / from the text path.
SemanticSucceeded == Succeeded /\ ~io.semanticThrew

TextSucceeded == Succeeded /\ io.semanticThrew

NoBackendContacted == io.embed = 0 /\ io.rpc = 0 /\ io.text = 0

\* C1: when the semantic path throws (embedding or RPC) for a valid request
\* and the text search does not, the response is 200 with success:true and
\* a result list the text search yields for the trimmed query and the
\* effective limit of the request; no error is part of the payload.
C1_FallbackOnSemanticFailure ==
  (Done /\ ValidSearchRequest /\ io.semanticThrew /\ ~io.textThrew) =>
    /\ response.status = 200
    /\ response.success
    /\ "error" \notin response.keys
    /\ query = Trim(request.body.query.text)
    /\ limit = EffectiveLimit(request.body.limit)
    /\ response.query = query
    /\ response.results \in performTextSearch(members, query, limit)

C1_Witness ==
  /\ Done
  /\ io.semanticThrew
  /\ ~io.textThrew
  /\ io.rpc = 1
  /\ Len(response.results) = 2

\* The request body carries a query string of fewer than 3 characters.
ShortQueryString ==
  /\ request.method = "POST"
  /\ request.body.kind = "object"
  /\ request.body.query.type = "string"
  /\ Len(request.body.query.text) < 3

\* C2 as stated: a POST whose query string is shorter than 3 characters gets
\* a 400 and contacts no backend, whatever the environment.
C2_ShortQueryAlways400 ==
  (Done /\ ShortQueryString) => (response.status = 400 /\ NoBackendContacted)

\* C2 amended: a POST whose query string is shorter than 3 characters never
\* contacts a backend; it gets a 400 when both environment variables are
\* set, and a 500 (before the body is read) when one is missing.
C2_ShortQueryNoBackend ==
  ShortQueryString =>
    /\ NoBackendContacted
    /\ Done
    /\ EnvComplete => (response.status = 400 /\ "error" \in response.keys)
    /\ ~EnvComplete => (response.status = 500 /\ ~io.bodyRead)

C2_Witness ==
  /\ Done
  /\ ShortQueryString
  /\ Len(request.body.query.text) = 2
  /\ EnvComplete
  /\ response.status = 400

\* C3: a request that passes validation enters the semantic path exactly
\* once; the text path is entered at most once and only after the semantic
\* path threw; no backend call is issued twice; exactly one response is
\* returned, a success with results or an error, and it is an error exactly
\* when the text path threw as well.
C3_SearchStateMachine ==
  /\ io.semantic <= 1 /\ io.fallback <= 1
  /\ io.embed <= 1 /\ io.rpc <= 1 /\ io.text <= 1
  /\ io.fallback = 1 => (io.semantic = 1 /\ io.semanticThrew)
  /\ io.text = io.fallback /\ io.embed = io.semantic
  /\ pc \in {"embedding", "rpc", "text"} => (io.semantic = 1 /\ io.responses = 0)
  /\ pc = "text" => io.fallback = 1
  /\ Done =>
       /\ io.responses = 1
       /\ ValidSearchRequest => io.semantic = 1
       /\ ValidSearchRequest =>
            IF io.textThrew
              THEN response.status = 500 /\ ~response.success
                   /\ "error" \in response.keys
              ELSE response.status = 200 /\ response.success
                   /\ "results" \in response.keys
       /\ io.semanticThrew => io.fallback = 1

C3_Witness ==
  /\ Done
  /\ io.semantic = 1
  /\ io.fallback = 1
  /\ io.textThrew
  /\ response.status = 500

\* The limit the request asks for: an omitted limit counts as 10.
RequestedLimit ==
  IF IsNull(request.body.limit) THEN DefaultLimit ELSE Get(request.body.limit)

\* C4: the number of results of a successful response never exceeds
\* min(requested limit, 50).
C4_ResultCountWithinLimit ==
  Succeeded => Len(response.results) <= Min(RequestedLimit, MaxLimit)

\* No result of the list scores below a later one (two NaN scores count
\* as equal).
NonIncreasing(rs) ==
  \A i, j \in 1..Len(rs) :
    i < j => \/ IsNaN(rs[i].similarity_score) /\ IsNaN(rs[j].similarity_score)
             \/ Geq(rs[i].similarity_score, rs[j].similarity_score)

\* C5: the results of the semantic path are in non-increasing order of
\* similarity_score.
C5_SemanticResultsSorted == SemanticSucceeded => NonIncreasing(response.results)

\* The cosine similarity of member i to the query embedding of the request.
SimilarityOf(i) == CosineSimilarity(Get(members[i].embedding), Get(queryEmbedding))

\* Member i has an embedding whose similarity is at least the threshold.
Qualifies(i) ==
  /\ ~IsNull(members[i].embedding)
  /\ Geq(SimilarityOf(i), SimilarityThreshold)

ReturnedIds == {response.results[k].id : k \in 1..Len(response.results)}

\* C6: match_members returns exactly the qualifying members, cut to the
\* match_count most similar: every returned row qualifies, the rows are as
\* many as min(match_count, number of qualifying members), and no omitted
\* qualifying member is more similar than a returned one.
C6_MatchMembersExact ==
  SemanticSucceeded =>
    /\ \A i \in ReturnedIds : Qualifies(i)
    /\ Len(response.results) =
         Min(limit, Cardinality({i \in 1..Len(members) : Qualifies(i)}))
    /\ \A i \in ReturnedIds, j \in 1..Len(members) :
         (Qualifies(j) /\ j \notin ReturnedIds) => Geq(SimilarityOf(i), SimilarityOf(j))

\* The number of search terms of the query searched that occur in the lower-cased
\* text of member i (name, role, description and skills, space-separated).
TermHits(i) ==
  LET terms == SearchTerms(query)
      text == ToLowerCase(Join(<<members[i].name, members[i].role,
                                 Coalesce(members[i].description)>>
                               \o members[i].skills))
  IN  Cardinality({t \in 1..Len(terms) : Includes(text, terms[t])})

\* C7: every result of the text path scores (number of matched terms) x 0.2,
\* capped at 1.0.
C7_TextScore ==
  TextSucceeded =>
    \A k \in 1..Len(response.results) :
      LET r == response.results[k]
          hits == TermHits(r.id)
          expected == IF hits >= 5 THEN ScoreOne ELSE Score(hits, 25)
      IN  Geq(r.similarity_score, expected) /\ Geq(expected, r.similarity_score)

C7_Witness ==
  /\ TextSucceeded
  /\ \E k \in 1..Len(response.results) :
       /\ TermHits(response.results[k].id) = 6
       /\ response.results[k].similarity_score = ScoreOne

\* C8: every result of a successful response has a similarity_score in [0,1].
C8_ScoreInUnitInterval ==
  Succeeded =>
    \A k \in 1..Len(response.results) :
      /\ Geq(response.results[k].similarity_score, ScoreZero)
      /\ Geq(ScoreOne, response.results[k].similarity_score)

\* C9: OPTIONS is answered 200 with the CORS headers, a method other than
\* OPTIONS and POST is answered 405, and neither reads the body, consults
\* the environment or contacts a backend.
C9_MethodDispatch ==
  (request.method \notin {"POST", "NONE"}) =>
    /\ Done
    /\ request.method = "OPTIONS" =>
         (response.status = 200 /\ corsHeaders \subseteq response.headers)
    /\ request.method # "OPTIONS" => response.status = 405
    /\ ~io.bodyRead /\ ~io.envRead /\ NoBackendContacted

C9_Witness ==
  /\ Done
  /\ request.method = "OPTIONS"
  /\ request.body.kind = "object"
  /\ response.status = 200
  /\ ~EnvComplete

\* C10: every non-success response to a POST carries the payload
\* { success: false, error, timestamp }.
C10_ErrorPayloadShape ==
  (Done /\ request.method = "POST" /\ response.status # 200) =>
    /\ response.keys = {"success", "error", "timestamp"}
    /\ ~response.success

\* C11: every response whose payload says success:true has status 200 and
\* exactly the keys success, query, results, count and timestamp; count is
\* the number of results and query is the trimmed query that was searched.
C11_SuccessPayload ==
  (Done /\ response.success) =>
    /\ response.status = 200
    /\ response.keys = {"success", "query", "results", "count", "timestamp"}
    /\ response.count = Len(response.results)
    /\ response.query = Trim(request.body.query.text)
    /\ response.query = query

\* A success whose query was sent with surrounding spaces and which
\* returns two results.
C11_Witness ==
  /\ Done
  /\ response.success
  /\ request.body.query.text # Trim(request.body.query.text)
  /\ response.count = 2

\* The body of a POST fails validation: it is not JSON, or it carries no
\* query, a query that is not a string, or a query shorter than 3 characters
\* once trimmed.
ValidationFailure ==
  /\ request.method = "POST"
  /\ \/ request.body.kind # "object"
     \/ request.body.query.type # "string"
     \/ Len(Trim(request.body.query.text)) < 3

\* C12: every invocation ends in exactly one response whose status is one
\* of 200, 400, 405 and 500; a disallowed method gives 405; a POST in an
\* incomplete environment, or one whose two search paths both throw, gives
\* 500; a POST in a complete environment whose body fails validation gives
\* 400.
C12_StatusMapping ==
  Done =>
    /\ io.responses = 1
    /\ response.status \in {200, 400, 405, 500}
    /\ (request.method \notin {"POST", "OPTIONS"}) => response.status = 405
    /\ (request.method = "POST" /\ ~EnvComplete) => response.status = 500
    /\ (request.method = "POST" /\ io.semanticThrew /\ io.textThrew) =>
         response.status = 500
    /\ (EnvComplete /\ ValidationFailure) => response.status = 400

StoredPaths(stored) == {o.path : o \in stored}

\* This step ends a running handleFileUpload in its catch block.
UploadFailing ==
  /\ upload.pc # "idle"
  /\ upload'.pc = "idle"
  /\ successTimers' = successTimers

\* C14: handleFileUpload takes its steps in order and undoes nothing. The
\* bucket changes only by the blob upload of the running handler and never
\* loses an object; the row update is issued only once the blob is stored,
\* and profile_picture changes only by that update, to the public URL of
\* the stored blob; a failure of any step ends the handler with
\* profile_picture as it was, and a failure of the URL fetch or of the row
\* update leaves the blob in the bucket.
C14_UploadStepsInOrder ==
  [][/\ objects' # objects =>
          /\ upload.pc = "uploading"
          /\ objects' = StoreObject(objects, Get(upload.path), Get(upload.file))
     /\ StoredPaths(objects) \subseteq StoredPaths(objects')
     /\ upload'.pc = "updating" =>
          /\ upload.pc \in {"uploading", "updating"}
          /\ Get(upload'.path) \in StoredPaths(objects')
     /\ profilePicture' # profilePicture =>
          /\ upload.pc = "updating"
          /\ profilePicture' = Some(PublicUrl(Get(upload.path)))
          /\ upload'.pc = "idle"
     /\ UploadFailing =>
          /\ profilePicture' = profilePicture
          /\ upload.pc = "updating" =>
               (objects' = objects /\ Get(upload.path) \in StoredPaths(objects'))
          /\ (upload.pc = "uploading" /\ objects' # objects) =>
               Get(upload.path) \in StoredPaths(objects')]_vars

\* The row update of the latest upload failed: its blob is in the bucket
\* and profile_picture does not point to it.
C14_Witness ==
  /\ upload.pc = "idle"
  /\ ~IsNull(uploadError)
  /\ Get(uploadError) \in UpdateErrorMessages
  /\ \E o \in objects :
       /\ o.path.time = uploadsStarted
       /\ profilePicture # Some(PublicUrl(o.path))

\* C15: in every state of the table, the embedding of each member is NULL
\* or a vector of exactly 384 dimensions.
C15_EmbeddingDimension ==
  \A i \in 1..Len(members) :
    IsNull(members[i].embedding) \/ Dim(Get(members[i].embedding)) = 384

\* A row from before the column had a writer next to a row that was given
\* an embedding.
C15_Witness ==
  /\ Len(members) = 2
  /\ IsNull(members[1].embedding)
  /\ members[2].embedding = Some(VecA)

\* The member a result was built from is matched by a search term: the
\* term is part of its name, role or description (case ignored) or of one
\* of its skills.
MatchedBySomeTerm(m, terms) ==
  \E t \in 1..Len(terms) :
    \/ Includes(ToLowerCase(m.name), terms[t])
    \/ Includes(ToLowerCase(m.role), terms[t])
    \/ Includes(ToLowerCase(Coalesce(m.description)), terms[t])
    \/ \E k \in 1..Len(m.skills) : Includes(ToLowerCase(m.skills[k]), terms[t])

\* C16: every member the text search returns is matched by at least one
\* search term of the query, for every query that passes validation.
C16_TextResultsMatchATerm ==
  TextSucceeded =>
    \A k \in 1..Len(response.results) :
      MatchedBySomeTerm(members[response.results[k].id], SearchTerms(query))

\* The maximal runs of characters of s outside seps that are longer than 2
\* characters, in the order in which they occur in s.
LongRuns(s, seps) ==
  LET starts == {i \in 1..Len(s) : s[i] \notin seps /\ (i = 1 \/ s[i - 1] \in seps)}
      end(i) == CHOOSE j \in i..Len(s) :
                  /\ \A k \in i..j : s[k] \notin seps
                  /\ j = Len(s) \/ s[j + 1] \in seps
      long == {i \in starts : end(i) - i + 1 > 2}
      nth(k) == CHOOSE i \in long : Cardinality({h \in long : h < i}) = k - 1
  IN  [k \in 1..Cardinality(long) |-> SubSeq(s, nth(k), end(nth(k)))]

\* C17 as stated: the search terms are the pieces of the lower-cased query
\* between white space that are longer than 2 characters.
C17_TermsSplitOnWhitespace ==
  ~IsNull(searchTerms) =>
    Get(searchTerms) = LongRuns(ToLowerCase(termsQuery), Whitespace)

\* C17 amended: the search terms are the pieces of the lower-cased query
\* between space characters that are longer than 2 characters, in order;
\* other white space (a tab) does not separate terms and stays part of them.
C17_TermsSplitOnSpaces ==
  ~IsNull(searchTerms) =>
    Get(searchTerms) = LongRuns(ToLowerCase(termsQuery), {Space})

\* The terms of a query with a tab and a space: the tab is inside a term.
C17_Witness ==
  /\ ~IsNull(searchTerms)
  /\ \E i \in 1..Len(termsQuery) : termsQuery[i] = Space
  /\ \E t \in 1..Len(Get(searchTerms)) :
       \E i \in 1..Len(Get(searchTerms)[t]) : Get(searchTerms)[t][i] = Tab

\* The members the filter of the text query lets through.
TextMatches ==
  LET terms == SearchTerms(query)
  IN  {i \in 1..Len(members) : OrFilter(members[i], terms)}

\* C18: the list the text search returns is in non-increasing order of
\* similarity_score and is built from the rows fetched before scoring: at
\* most `limit` rows, the first matches in name order, whatever they score.
C18_TextSortedFromFirstRows ==
  TextSucceeded =>
    LET returned == ReturnedIds
        matches == TextMatches
    IN  /\ NonIncreasing(response.results)
        /\ Len(response.results) = Cardinality(returned)
        /\ Cardinality(returned) = Min(limit, Cardinality(matches))
        /\ returned \subseteq matches
        /\ \A r \in returned, m \in matches \ returned :
             TextLeq(members[r].name, members[m].name)

\* With limit 1 the one row returned is the first match by name, and a
\* match that scores higher is left out.
C18_Witness ==
  /\ TextSucceeded
  /\ limit = 1
  /\ \E r \in ReturnedIds, m \in TextMatches \ ReturnedIds :
       TermHits(m) > TermHits(r)

\* C19: every row an INSERT or UPDATE writes has a non-NULL embedding, the
\* trigger turning a NULL embedding into the vector of 384 zeros and
\* leaving any other embedding as supplied.
C19_TriggerFillsNull ==
  [][/\ \A i \in 1..Len(members') :
          (IF i > Len(members) THEN TRUE ELSE members'[i] # members[i]) =>
            ~IsNull(members'[i].embedding)
     /\ \A p \in Profiles, e \in EmbeddingInputs :
          generate_member_embedding(Member(1, p, e)).embedding =
            (IF IsNull(e) THEN Some([head |-> <<0, 0>>, fill |-> 0, n |-> 382])
                          ELSE e)]_vars

\* A row written without an embedding holds the zero vector, next to a row
\* written with one.
C19_Witness ==
  /\ Len(members) = 2
  /\ members[1].embedding = Some(ZeroVector)
  /\ members[2].embedding = Some(VecB)

\* C20: setupStorage issues createBucket only when the listing holds no
\* bucket named profile-pictures; the script changes the buckets only by
\* adding that bucket, created public with a 5 MB file size limit and the
\* image MIME allowlist; it changes nothing when a bucket of that name
\* exists; and a run that ends without a listing or creation error leaves a
\* bucket named profile-pictures behind.
C20_SetupStorage ==
  [][setup' # setup =>
       /\ setup'.pc = "creating" => "profile-pictures" \notin setup'.listed
       /\ buckets \subseteq buckets'
       /\ buckets' # buckets =>
            /\ setup.pc = "creating"
            /\ "profile-pictures" \notin setup.listed
            /\ buckets' \ buckets =
                 {[name |-> "profile-pictures", public |-> TRUE,
                   fileSizeLimit |-> Some(5 * 1024 * 1024),
                   allowedMimeTypes |->
                     Some({"image/jpeg", "image/png", "image/webp", "image/gif"})]}
       /\ "profile-pictures" \in BucketNames(buckets) => buckets' = buckets
       /\ (setup'.pc = "idle" /\ setup'.outcome \in {"exists", "created"}) =>
            "profile-pictures" \in BucketNames(buckets')]_vars

\* The script ran twice: the first run created the bucket, the second
\* found it and issued no createBucket.
C20_Witness ==
  /\ setup.pc = "idle"
  /\ setup.runs = 2
  /\ setup.creates = 1
  /\ setup.outcome = "exists"
  /\ NewBucket \in buckets

\* The file is of one of the three image types and of at most 5 MB.
Acceptable(f) ==
  /\ f.type \in {"image/jpeg", "image/jpg", "image/png"}
  /\ f.size <= 5 * 1024 * 1024

\* This step is a change event of the file input: the input holds a new file.
FilePicked == fileInput' # fileInput /\ ~IsNull(fileInput')

\* C21: handleFileSelect accepts the picked file exactly when it is a
\* JPEG, JPG or PNG of at most 5 MB; an accepted file becomes selectedFile
\* and uploadError is cleared; a rejected file sets uploadError and is
\* neither selected, nor handed to the storage upload, nor stored.
C21_FileSelectValidation ==
  [][/\ FilePicked =>
          IF Acceptable(Get(fileInput'))
            THEN selectedFile' = fileInput' /\ IsNull(uploadError')
            ELSE selectedFile' # fileInput' /\ ~IsNull(uploadError')
     /\ ~IsNull(selectedFile') => Acceptable(Get(selectedFile'))
     /\ upload'.pc # "idle" => Acceptable(Get(upload'.file))
     /\ \A o \in objects' : Acceptable(o.file)]_vars

\* A file of exactly 5 MB is selected and stored, and the input now holds
\* a file that was rejected.
C21_Witness ==
  /\ ~IsNull(fileInput)
  /\ ~Acceptable(Get(fileInput))
  /\ ~IsNull(uploadError)
  /\ ~IsNull(selectedFile)
  /\ Get(selectedFile).size = MaxFileSize
  /\ \E o \in objects : o.file = Get(selectedFile)

\* C27: a change event that rejects the picked file changes uploadError
\* and nothing else of the page, so the file accepted before stays
\* selected; handleFileUpload sends the selected file, and starts nothing
\* when no file is selected or nobody is signed in.
C27_RejectionKeepsSelection ==
  [][/\ (FilePicked /\ ~Acceptable(Get(fileInput'))) =>
          /\ ~IsNull(uploadError')
          /\ UNCHANGED <<selectedFile, previewUrl, uploadSuccess, isUploading,
                         upload, objects, profilePicture, uploadsStarted,
                         successTimers, user>>
     /\ (upload.pc = "idle" /\ upload'.pc # "idle") =>
          /\ ~IsNull(selectedFile)
          /\ ~IsNull(user)
          /\ upload'.file = selectedFile
     /\ (upload.pc = "idle" /\ (IsNull(selectedFile) \/ IsNull(user))) =>
          UNCHANGED <<isUploading, upload, objects, profilePicture, uploadsStarted>>]_vars

\* An upload under way sends the file accepted earlier, although the input
\* holds a file that was rejected since.
C27_Witness ==
  /\ upload.pc = "uploading"
  /\ upload.file = selectedFile
  /\ ~IsNull(fileInput)
  /\ ~Acceptable(Get(fileInput))

\* No row of the table passes the WHERE clause of match_members: each has
\* no embedding, or a similarity that is a number below the threshold.
NoRowMatches ==
  \A i \in 1..Len(members) :
    IF IsNull(members[i].embedding)
      THEN TRUE
      ELSE /\ ~IsNaN(SimilarityOf(i))
           /\ ~NumGeq(SimilarityOf(i), SimilarityThreshold)

\* C23: when the embedding call and the RPC both answer without error, the
\* text search is not attempted; and when no row matches, the response is
\* the success payload with an empty result list and count 0.
C23_EmptySemanticResult ==
  (Done /\ io.rpc = 1 /\ ~io.semanticThrew) =>
    /\ io.text = 0
    /\ io.fallback = 0
    /\ NoRowMatches =>
         /\ response.status = 200
         /\ response.success
         /\ response.results = <<>>
         /\ response.count = 0

\* The table holds a row with an embedding, below the threshold, and the
\* semantic path answered with no result.
C23_Witness ==
  /\ Done
  /\ io.rpc = 1
  /\ ~io.semanticThrew
  /\ response.success
  /\ response.results = <<>>
  /\ \E i \in 1..Len(members) : members[i].embedding = Some(FillVector)

\* ------------------------------------------------------------------------
\* The search box of SemanticSearchPage
\* ------------------------------------------------------------------------

\* Change events the search box may have.
MaxKeystrokes == 3

\* Periods of Delay milliseconds the clock may run for.
MaxPeriods == 3

\* The delay of the debounce timer, in milliseconds.
Delay == 500

\* The shortest query performSearch sends.
MinQueryLength == 3

\* What the user may have in the search box: too short, long enough, longer,
\* and long enough only with its trailing spaces.
SearchInputs ==
  { <<"a", "b">>, <<"a", "b", "c">>, <<"a", "b", "c", "d">>, <<"a", " ", " ">> }

\* The rows the function finds for a query: none, or rows of that query.
ResultsFor(q) == { <<>>, <<[matching |-> q]>> }

\* The messages a failed search shows: the status of a response that is not
\* ok, the error of a body without results, the message of a failed fetch.
SearchErrorMessages(q) ==
  IF Len(q) < MinQueryLength
    THEN {"Search failed: 400"}
    ELSE {"Search failed: 500", "Failed to fetch"}

PageInit ==
  /\ PageAtRest
  /\ SearchAtRest
  /\ UploadAtRest
  /\ TermsAtRest
  /\ StorageAtRest
  /\ CropAtRest
  /\ DetailAtRest

\* handleSearchChange that leaves the pending timer running.
HandleSearchChangeKeepingTimer ==
  \E value \in SearchInputs :
    /\ keystrokes < MaxKeystrokes
    /\ value # searchQuery
    /\ searchQuery' = value
    /\ timers' = timers \cup
         {[id |-> keystrokes + 1, query |-> value, due |-> clock + Delay]}
    /\ searchTimeoutRef' = Some(keystrokes + 1)
    /\ keystrokes' = keystrokes + 1
    /\ changedAt' = clock
    /\ UNCHANGED <<searchVars, uploadVars, termVars, storageVars, cropVars,
                   detailVars, searchResults, isSearching, searchError,
                   hasSearched, requests, clock>>

\* handleSearchChange: the input's value changed.  The timer the ref names is
\* cleared (a no-op once it has fired) and a new one is set for this value.
HandleSearchChange ==
  \E value \in SearchInputs :
    /\ keystrokes < MaxKeystrokes
    /\ value # searchQuery
    /\ searchQuery' = value
    /\ timers' =
         (IF IsNull(searchTimeoutRef)
            THEN timers
            ELSE {t \in timers : t.id # Get(searchTimeoutRef)})
         \cup {[id |-> keystrokes + 1, query |-> value, due |-> clock + Delay]}
    /\ searchTimeoutRef' = Some(keystrokes + 1)
    /\ keystrokes' = keystrokes + 1
    /\ changedAt' = clock
    /\ UNCHANGED <<searchVars, uploadVars, termVars, storageVars, cropVars,
                   detailVars, searchResults, isSearching, searchError,
                   hasSearched, requests, clock>>

\* Delay milliseconds pass.
Tick ==
  /\ clock < MaxPeriods * Delay
  /\ clock' = clock + Delay
  /\ UNCHANGED <<searchVars, uploadVars, termVars, storageVars, cropVars,
                 detailVars, searchQuery, searchResults, isSearching,
                 searchError, hasSearched, timers, searchTimeoutRef, requests,
                 keystrokes, changedAt>>

\* A timer that is due fires and runs performSearch(query) up to its await:
\* a short query clears the results, any other is sent trimmed.
TimerFires ==
  \E t \in timers :
    /\ clock >= t.due
    /\ timers' = timers \ {t}
    /\ IF Len(t.query) < MinQueryLength
         THEN /\ searchResults' = <<>>
              /\ hasSearched' = FALSE
              /\ UNCHANGED <<isSearching, searchError, requests>>
         ELSE /\ isSearching' = TRUE
              /\ searchError' = Null
              /\ hasSearched' = TRUE
              /\ requests' = Append(requests,
                   [query |-> Trim(t.query), status |-> "pending",
                    results |-> <<>>, error |-> Null])
              /\ UNCHANGED searchResults
    /\ UNCHANGED <<searchVars, uploadVars, termVars, storageVars, cropVars,
                   detailVars, searchQuery, searchTimeoutRef, keystrokes,
                   clock, changedAt>>

\* performSearch after its await, the response being ok with results: the
\* results are shown and the spinner stops.
SearchSucceeds ==
  \E i \in DOMAIN requests : \E rows \in ResultsFor(requests[i].query) :
    /\ requests[i].status = "pending"
    /\ Len(requests[i].query) >= MinQueryLength
    /\ requests' = [requests EXCEPT ![i].status = "ok", ![i].results = rows]
    /\ searchResults' = rows
    /\ isSearching' = FALSE
    /\ UNCHANGED <<searchVars, uploadVars, termVars, storageVars, cropVars,
                   detailVars, searchQuery, searchError, hasSearched, timers,
                   searchTimeoutRef, keystrokes, clock, changedAt>>

\* performSearch after its await, the fetch or the response having failed:
\* the catch shows the message and clears the results, the spinner stops.
SearchFails ==
  \E i \in DOMAIN requests :
    \E message \in SearchErrorMessages(requests[i].query) :
      /\ requests[i].status = "pending"
      /\ requests' = [requests EXCEPT ![i].status = "error",
                                      ![i].error = Some(message)]
      /\ searchError' = Some(message)
      /\ searchResults' = <<>>
      /\ isSearching' = FALSE
      /\ UNCHANGED <<searchVars, uploadVars, termVars, storageVars, cropVars,
                     detailVars, searchQuery, hasSearched, timers,
                     searchTimeoutRef, keystrokes, clock, changedAt>>

PageNext ==
  \/ HandleSearchChange
  \/ Tick
  \/ TimerFires
  \/ SearchSucceeds
  \/ SearchFails

SpecPage == PageInit /\ [][PageNext]_vars

\* The fetches not yet answered.
InFlight == {i \in DOMAIN requests : requests[i].status = "pending"}

\* This step issues a request.
RequestIssued == Len(requests') = Len(requests) + 1

\* C22: the search input is debounced: a change cancels the pending timer
\* and starts a new one of 500 ms, so at most one timer is pending; a request
\* is issued only for the value the input has had unchanged for 500 ms; a
\* timer firing for an input shorter than 3 characters issues no request and
\* clears the results.
C22_Debounce ==
  [][ /\ Cardinality(timers') <= 1
      /\ keystrokes' # keystrokes =>
           timers' = {[id |-> keystrokes', query |-> searchQuery',
                       due |-> clock + Delay]}
      /\ RequestIssued =>
           /\ requests'[Len(requests')].query = Trim(searchQuery)
           /\ Len(searchQuery) >= MinQueryLength
           /\ clock >= changedAt + Delay
      /\ (timers' # timers /\ keystrokes' = keystrokes
            /\ Len(searchQuery) < MinQueryLength) =>
           /\ requests' = requests
           /\ searchResults' = <<>>
    ]_vars

\* A second change within the delay replaced the first one's timer, and the
\* only request issued is for the second value.
C22_Witness ==
  /\ keystrokes = 2
  /\ changedAt = 0
  /\ Len(requests) = 1
  /\ requests[1].query = searchQuery
  /\ timers = {}

\* The request issued last.
LastRequest == requests[Len(requests)]

\* The input is at rest on a query that was sent, and every fetch has been
\* answered.
SearchSettled ==
  /\ timers = {}
  /\ Len(searchQuery) >= MinQueryLength
  /\ requests # <<>>
  /\ InFlight = {}

\* C24: when search requests overlap, then once every request in flight has
\* completed the results and the error shown are those of the query issued
\* last, in whatever order the responses arrived.
C24_LatestQueryShown ==
  SearchSettled =>
    /\ searchResults = LastRequest.results
    /\ searchError = LastRequest.error

\* C25: the spinner shows in every state in which a request is in flight,
\* and not once none is.
C25_SearchingWhileInFlight ==
  /\ InFlight # {} => isSearching
  /\ InFlight = {} => ~isSearching

\* ------------------------------------------------------------------------
\* The crop dialog ProfilePictureUpload
\* ------------------------------------------------------------------------

\* Files the user may pick in the dialog.
MaxPicks == 2

\* Times the user may press Apply Crop.
MaxCrops == 2

\* Times the user may press Upload Picture.
MaxImageUpdates == 2

\* The crops ReactCrop may complete: a click without a drag has no area.
CropInputs == { [width |-> 0, height |-> 0], [width |-> 1, height |-> 1] }

\* completedCrop?.width && completedCrop?.height
HasArea(c) == IF IsNull(c) THEN FALSE ELSE Get(c).width > 0 /\ Get(c).height > 0

\* The three blocks the dialog renders.
SelectStage == IsNull(imgSrc)

CropStage == ~IsNull(imgSrc) /\ IsNull(croppedImageUrl)

PreviewStage == ~IsNull(croppedImageUrl)

StagesShown ==
  (IF SelectStage THEN {"select"} ELSE {})
    \cup (IF CropStage THEN {"crop"} ELSE {})
    \cup (IF PreviewStage THEN {"preview"} ELSE {})

CropInit ==
  /\ CropAtRest
  /\ SearchAtRest
  /\ UploadAtRest
  /\ TermsAtRest
  /\ StorageAtRest
  /\ PageAtRest
  /\ DetailAtRest

\* onSelectFile: a file is picked in the select stage and a FileReader
\* starts reading it.
OnSelectFile ==
  /\ SelectStage
  /\ picks < MaxPicks
  /\ picks' = picks + 1
  /\ reading' = reading \cup {picks + 1}
  /\ UNCHANGED <<searchVars, uploadVars, termVars, storageVars, pageVars,
                 detailVars, imgSrc, completedCrop, croppedImageUrl, cropping,
                 imageUpdates, crops>>

\* The load listener of a FileReader: the data URL of the file is the image.
ReaderLoads ==
  \E file \in reading :
    /\ reading' = reading \ {file}
    /\ imgSrc' = Some([dataUrlOf |-> file])
    /\ UNCHANGED <<searchVars, uploadVars, termVars, storageVars, pageVars,
                   detailVars, completedCrop, croppedImageUrl, cropping,
                   imageUpdates, picks, crops>>

\* onComplete of ReactCrop, rendered in the crop stage.
OnCropComplete ==
  \E c \in CropInputs :
    /\ CropStage
    /\ completedCrop # Some(c)
    /\ completedCrop' = Some(c)
    /\ UNCHANGED <<searchVars, uploadVars, termVars, storageVars, pageVars,
                   detailVars, imgSrc, croppedImageUrl, reading, cropping,
                   imageUpdates, picks, crops>>

\* handleCropComplete up to its await: Apply Crop, enabled for a crop with an
\* area, starts getCroppedImg on the image shown.
HandleCropComplete ==
  /\ CropStage
  /\ HasArea(completedCrop)
  /\ crops < MaxCrops
  /\ crops' = crops + 1
  /\ cropping' = cropping \cup {[id |-> crops + 1, image |-> Get(imgSrc)]}
  /\ UNCHANGED <<searchVars, uploadVars, termVars, storageVars, pageVars,
                 detailVars, imgSrc, completedCrop, croppedImageUrl, reading,
                 imageUpdates, picks>>

\* handleCropComplete after its await: toBlob gave a blob, and its object
\* URL becomes the cropped image.
CropResolves ==
  \E job \in cropping :
    /\ cropping' = cropping \ {job}
    /\ croppedImageUrl' = Some([objectUrlOf |-> job.image])
    /\ UNCHANGED <<searchVars, uploadVars, termVars, storageVars, pageVars,
                   detailVars, imgSrc, completedCrop, reading, imageUpdates,
                   picks, crops>>

\* getCroppedImg without a 2d context throws into the catch, and without a
\* blob never resolves: nothing is set.
CropGivesNothing ==
  \E job \in cropping :
    /\ cropping' = cropping \ {job}
    /\ UNCHANGED <<searchVars, uploadVars, termVars, storageVars, pageVars,
                   detailVars, imgSrc, completedCrop, croppedImageUrl, reading,
                   imageUpdates, picks, crops>>

\* handleStartOver: Choose Different Image of the crop stage, Start Over of
\* the preview stage.
HandleStartOver ==
  /\ ~SelectStage \/ PreviewStage
  /\ imgSrc' = Null
  /\ completedCrop' = Null
  /\ croppedImageUrl' = Null
  /\ UNCHANGED <<searchVars, uploadVars, termVars, storageVars, pageVars,
                 detailVars, reading, cropping, imageUpdates, picks, crops>>

\* handleUpload: Upload Picture of the preview stage.
HandleUpload ==
  /\ PreviewStage
  /\ Len(imageUpdates) < MaxImageUpdates
  /\ IF ~IsNull(croppedImageUrl)
       THEN imageUpdates' = Append(imageUpdates, croppedImageUrl)
       ELSE UNCHANGED imageUpdates
  /\ UNCHANGED <<searchVars, uploadVars, termVars, storageVars, pageVars,
                 detailVars, imgSrc, completedCrop, croppedImageUrl, reading,
                 cropping, picks, crops>>

CropNext ==
  \/ OnSelectFile
  \/ ReaderLoads
  \/ OnCropComplete
  \/ HandleCropComplete
  \/ CropResolves
  \/ CropGivesNothing
  \/ HandleStartOver
  \/ HandleUpload

SpecCrop == CropInit /\ [][CropNext]_vars

\* C26: the dialog shows exactly one of its three stages in every reachable
\* state, the cropped image being set only while a source image is, however
\* the completion of Apply Crop interleaves with Start Over and Choose
\* Different Image; and onImageUpdate is only ever called with a cropped
\* image URL that is not empty.
C26_OneStageShown ==
  /\ Cardinality(StagesShown) = 1
  /\ ~IsNull(croppedImageUrl) => ~IsNull(imgSrc)
  /\ \A i \in DOMAIN imageUpdates : ~IsNull(imageUpdates[i])

\* ------------------------------------------------------------------------
\* MemberDetailPage: editing the description and the skills
\* ------------------------------------------------------------------------

\* Saves the user may start.
MaxSaves == 1

\* Skills as the user may type them and as the table may hold them.
SkillA == <<"a">>

SkillB == <<"b">>

PaddedA == <<" ", "a">>

Blank == <<" ">>

SkillInputs == { <<>>, Blank, SkillA, PaddedA, SkillB }

\* Descriptions the user may type.
DescriptionInputs == { <<>>, <<"x">> }

\* Rows the members table may hold for the member shown: description and
\* skills are nullable and unconstrained columns.
MemberRows ==
  { [description |-> Null, skills |-> Null],
    [description |-> Some(<<"d">>), skills |-> Some(<<SkillA>>)],
    [description |-> Some(<<"d">>), skills |-> Some(<<PaddedA, <<>>>>)],
    [description |-> Some(<<"d">>), skills |-> Some(<<SkillA, SkillA>>)] }

\* data.description || ''
DescriptionOf(m) ==
  IF IsNull(m) THEN <<>>
  ELSE IF IsNull(Get(m).description) THEN <<>> ELSE Get(Get(m).description)

\* data.skills || []
SkillsOf(m) ==
  IF IsNull(m) THEN <<>>
  ELSE IF IsNull(Get(m).skills) THEN <<>> ELSE Get(Get(m).skills)

\* Array.prototype.includes
ArrayIncludes(list, x) == \E i \in DOMAIN list : list[i] = x

\* Array.prototype.filter(s => s !== x)
RECURSIVE Without(_, _)
Without(list, x) ==
  IF Len(list) = 0 THEN <<>>
  ELSE IF list[1] = x
    THEN Without(Tail(list), x)
    ELSE <<list[1]>> \o Without(Tail(list), x)

DetailInit ==
  /\ member = Null
  /\ loading = Null
  /\ isEditingDescription = FALSE
  /\ editDescription = <<>>
  /\ isEditingSkills = FALSE
  /\ editSkills = <<>>
  /\ newSkill = <<>>
  /\ saves = {}
  /\ savesStarted = 0
  /\ updateError = Null
  /\ memberRow \in {Some(row) : row \in MemberRows}
  /\ SearchAtRest
  /\ UploadAtRest
  /\ TermsAtRest
  /\ StorageAtRest
  /\ PageAtRest
  /\ CropAtRest

\* fetchMember: the row is shown and the edit fields take its values.
FetchMember ==
  /\ IsNull(member)
  /\ member' = memberRow
  /\ editDescription' = DescriptionOf(memberRow)
  /\ editSkills' = SkillsOf(memberRow)
  /\ UNCHANGED <<searchVars, uploadVars, termVars, storageVars, pageVars,
                 cropVars, loading, isEditingDescription, isEditingSkills,
                 newSkill, saves, savesStarted, updateError, memberRow>>

\* The edit button of the description.
StartEditingDescription ==
  /\ ~IsNull(member)
  /\ ~isEditingDescription
  /\ isEditingDescription' = TRUE
  /\ UNCHANGED <<searchVars, uploadVars, termVars, storageVars, pageVars,
                 cropVars, member, loading, editDescription, isEditingSkills,
                 editSkills, newSkill, saves, savesStarted, updateError, memberRow>>

\* onChange of the description's textarea.
ChangeDescription ==
  \E value \in DescriptionInputs :
    /\ isEditingDescription
    /\ value # editDescription
    /\ editDescription' = value
    /\ UNCHANGED <<searchVars, uploadVars, termVars, storageVars, pageVars,
                   cropVars, member, loading, isEditingDescription,
                   isEditingSkills, editSkills, newSkill, saves, savesStarted, updateError,
                   memberRow>>

\* handleSaveDescription up to its await: the update is sent with the
\* description and the member the handler sees.
HandleSaveDescription ==
  /\ isEditingDescription
  /\ ~IsNull(member)
  /\ loading # Some("save-description")
  /\ savesStarted < MaxSaves
  /\ loading' = Some("save-description")
  /\ saves' = saves \cup {[id |-> savesStarted + 1, field |-> "description",
                            value |-> editDescription, member |-> Get(member)]}
  /\ savesStarted' = savesStarted + 1
  /\ UNCHANGED <<searchVars, uploadVars, termVars, storageVars, pageVars,
                 cropVars, member, isEditingDescription, editDescription,
                 isEditingSkills, editSkills, newSkill, updateError, memberRow>>

\* handleSaveDescription whose catch also leaves the edit mode.
SaveDescriptionFailsClosing ==
  \E save \in saves :
    /\ save.field = "description"
    /\ saves' = saves \ {save}
    /\ updateError' = Some(TRUE)
    /\ isEditingDescription' = FALSE
    /\ loading' = Null
    /\ UNCHANGED <<searchVars, uploadVars, termVars, storageVars, pageVars,
                   cropVars, member, editDescription, isEditingSkills,
                   editSkills, newSkill, savesStarted, memberRow>>

\* handleSaveDescription after its await, the update having failed: the
\* catch logs, the finally clears loading.
SaveDescriptionFails ==
  \E save \in saves :
    /\ save.field = "description"
    /\ saves' = saves \ {save}
    /\ updateError' = Some(TRUE)
    /\ loading' = Null
    /\ UNCHANGED <<searchVars, uploadVars, termVars, storageVars, pageVars,
                   cropVars, member, isEditingDescription, editDescription,
                   isEditingSkills, editSkills, newSkill, savesStarted,
                   memberRow>>

\* handleSaveDescription after its await, the row having been updated: the
\* member the handler saw is shown with the description sent, the edit mode
\* closes, the finally clears loading.
SaveDescriptionSucceeds ==
  \E save \in saves :
    /\ save.field = "description"
    /\ saves' = saves \ {save}
    /\ updateError' = Some(FALSE)
    /\ memberRow' = Some([Get(memberRow) EXCEPT !.description = Some(save.value)])
    /\ member' = Some([save.member EXCEPT !.description = Some(save.value)])
    /\ isEditingDescription' = FALSE
    /\ loading' = Null
    /\ UNCHANGED <<searchVars, uploadVars, termVars, storageVars, pageVars,
                   cropVars, editDescription, isEditingSkills, editSkills,
                   newSkill, savesStarted>>

\* handleCancelDescription
HandleCancelDescription ==
  /\ isEditingDescription
  /\ editDescription' = DescriptionOf(member)
  /\ isEditingDescription' = FALSE
  /\ UNCHANGED <<searchVars, uploadVars, termVars, storageVars, pageVars,
                 cropVars, member, loading, isEditingSkills, editSkills,
                 newSkill, saves, savesStarted, updateError, memberRow>>

\* The edit button of the skills.
StartEditingSkills ==
  /\ ~IsNull(member)
  /\ ~isEditingSkills
  /\ isEditingSkills' = TRUE
  /\ UNCHANGED <<searchVars, uploadVars, termVars, storageVars, pageVars,
                 cropVars, member, loading, isEditingDescription,
                 editDescription, editSkills, newSkill, saves, savesStarted, updateError,
                 memberRow>>

\* onChange of the new skill's input.
ChangeNewSkill ==
  \E value \in SkillInputs :
    /\ isEditingSkills
    /\ value # newSkill
    /\ newSkill' = value
    /\ UNCHANGED <<searchVars, uploadVars, termVars, storageVars, pageVars,
                   cropVars, member, loading, isEditingDescription,
                   editDescription, isEditingSkills, editSkills, saves,
                   savesStarted, updateError, memberRow>>

\* handleAddSkill that appends whatever was typed.
HandleAddSkillUnchecked ==
  /\ isEditingSkills
  /\ editSkills' = Append(editSkills, newSkill)
  /\ newSkill' = <<>>
  /\ UNCHANGED <<searchVars, uploadVars, termVars, storageVars, pageVars,
                 cropVars, member, loading, isEditingDescription,
                 editDescription, isEditingSkills, saves, savesStarted, updateError,
                 memberRow>>

\* handleAddSkill: the trimmed skill is appended unless it is blank or
\* already in the list.
HandleAddSkill ==
  /\ isEditingSkills
  /\ IF Trim(newSkill) # <<>> /\ ~ArrayIncludes(editSkills, Trim(newSkill))
       THEN /\ editSkills' = Append(editSkills, Trim(newSkill))
            /\ newSkill' = <<>>
       ELSE UNCHANGED <<editSkills, newSkill>>
  /\ UNCHANGED <<searchVars, uploadVars, termVars, storageVars, pageVars,
                 cropVars, member, loading, isEditingDescription,
                 editDescription, isEditingSkills, saves, savesStarted, updateError,
                 memberRow>>

\* handleRemoveSkill, from the button of one of the skills listed.
HandleRemoveSkill ==
  \E i \in DOMAIN editSkills :
    /\ isEditingSkills
    /\ editSkills' = Without(editSkills, editSkills[i])
    /\ UNCHANGED <<searchVars, uploadVars, termVars, storageVars, pageVars,
                   cropVars, member, loading, isEditingDescription,
                   editDescription, isEditingSkills, newSkill, saves,
                   savesStarted, updateError, memberRow>>

\* handleSaveSkills up to its await.
HandleSaveSkills ==
  /\ isEditingSkills
  /\ ~IsNull(member)
  /\ loading # Some("save-skills")
  /\ savesStarted < MaxSaves
  /\ loading' = Some("save-skills")
  /\ saves' = saves \cup {[id |-> savesStarted + 1, field |-> "skills",
                            value |-> editSkills, member |-> Get(member)]}
  /\ savesStarted' = savesStarted + 1
  /\ UNCHANGED <<searchVars, uploadVars, termVars, storageVars, pageVars,
                 cropVars, member, isEditingDescription, editDescription,
                 isEditingSkills, editSkills, newSkill, updateError, memberRow>>

\* handleSaveSkills after its await, the update having failed.
SaveSkillsFails ==
  \E save \in saves :
    /\ save.field = "skills"
    /\ saves' = saves \ {save}
    /\ updateError' = Some(TRUE)
    /\ loading' = Null
    /\ UNCHANGED <<searchVars, uploadVars, termVars, storageVars, pageVars,
                   cropVars, member, isEditingDescription, editDescription,
                   isEditingSkills, editSkills, newSkill, savesStarted,
                   memberRow>>

\* handleSaveSkills after its await, the row having been updated.
SaveSkillsSucceeds ==
  \E save \in saves :
    /\ save.field = "skills"
    /\ saves' = saves \ {save}
    /\ updateError' = Some(FALSE)
    /\ memberRow' = Some([Get(memberRow) EXCEPT !.skills = Some(save.value)])
    /\ member' = Some([save.member EXCEPT !.skills = Some(save.value)])
    /\ isEditingSkills' = FALSE
    /\ loading' = Null
    /\ UNCHANGED <<searchVars, uploadVars, termVars, storageVars, pageVars,
                   cropVars, isEditingDescription, editDescription, editSkills,
                   newSkill, savesStarted>>

\* handleCancelSkills
HandleCancelSkills ==
  /\ isEditingSkills
  /\ editSkills' = SkillsOf(member)
  /\ isEditingSkills' = FALSE
  /\ newSkill' = <<>>
  /\ UNCHANGED <<searchVars, uploadVars, termVars, storageVars, pageVars,
                 cropVars, member, loading, isEditingDescription,
                 editDescription, saves, savesStarted, updateError, memberRow>>

DetailNext ==
  \/ FetchMember
  \/ StartEditingDescription
  \/ ChangeDescription
  \/ HandleSaveDescription
  \/ SaveDescriptionFails
  \/ SaveDescriptionSucceeds
  \/ HandleCancelDescription
  \/ StartEditingSkills
  \/ ChangeNewSkill
  \/ HandleAddSkill
  \/ HandleRemoveSkill
  \/ HandleSaveSkills
  \/ SaveSkillsFails
  \/ SaveSkillsSucceeds
  \/ HandleCancelSkills

SpecDetail == DetailInit /\ [][DetailNext]_vars

\* The skills editor alone: the member is loaded and the list is edited and
\* cancelled, never saved.
SkillsNext ==
  \/ FetchMember
  \/ StartEditingSkills
  \/ ChangeNewSkill
  \/ HandleAddSkill
  \/ HandleRemoveSkill
  \/ HandleCancelSkills

SpecSkills == DetailInit /\ [][SkillsNext]_vars

\* The value the member shown has in a field.
FieldOf(m, field) ==
  IF field = "description" THEN DescriptionOf(m) ELSE SkillsOf(m)

\* Whether the edit mode of a field is open in the state before and after.
EditingOpen(field) ==
  IF field = "description" THEN isEditingDescription ELSE isEditingSkills

EditingOpenAfter(field) ==
  IF field = "description" THEN isEditingDescription' ELSE isEditingSkills'

\* C28: when the update of handleSaveDescription or handleSaveSkills fails,
\* the member shown is unchanged, the edit mode and the pending edits are as
\* they were, and loading is null; when it succeeds, the member shows the
\* value sent, the edit mode is closed, and loading is null.
C28_SaveOutcomes ==
  [][ \A save \in saves \ saves' :
        /\ loading' = Null
        /\ IF Get(updateError')
             THEN /\ member' = member
                  /\ EditingOpenAfter(save.field) = EditingOpen(save.field)
                  /\ UNCHANGED <<isEditingDescription, isEditingSkills,
                                 editDescription, editSkills, newSkill>>
             ELSE /\ FieldOf(member', save.field) = save.value
                  /\ ~EditingOpenAfter(save.field)
    ]_vars

\* A save of the skills has just failed: the list edited differs from the
\* member's, the editor is still open and nothing is loading.
C28_Witness ==
  /\ updateError = Some(TRUE)
  /\ saves = {}
  /\ savesStarted = 1
  /\ isEditingSkills
  /\ editSkills # SkillsOf(member)
  /\ member = memberRow
  /\ loading = Null

\* No entry occurs twice.
NoDuplicates(list) ==
  \A i, j \in DOMAIN list : i # j => list[i] # list[j]

\* No entry is empty or has white space around it.
AllTrimmed(list) ==
  \A i \in DOMAIN list : list[i] # <<>> /\ Trim(list[i]) = list[i]

\* The steps of the skills editor: what one that lengthens the list, one that
\* shortens it and one that closes the editor do.  A skill that is blank or
\* already listed lengthens nothing.
SkillSteps ==
  /\ (isEditingSkills /\ isEditingSkills' /\ Len(editSkills') > Len(editSkills)) =>
       /\ Trim(newSkill) # <<>>
       /\ ~ArrayIncludes(editSkills, Trim(newSkill))
       /\ editSkills' = Append(editSkills, Trim(newSkill))
       /\ newSkill' = <<>>
  /\ (isEditingSkills /\ isEditingSkills' /\ Len(editSkills') < Len(editSkills)) =>
       \E i \in DOMAIN editSkills :
         /\ ~ArrayIncludes(editSkills', editSkills[i])
         /\ editSkills' = Without(editSkills, editSkills[i])
  /\ (isEditingSkills /\ ~isEditingSkills') =>
       editSkills' = SkillsOf(member)

\* C29 as stated: after any sequence of handleAddSkill, handleRemoveSkill and
\* handleCancelSkills from a loaded skill list without duplicates, editSkills
\* has no duplicate, no empty and no untrimmed entry; adding a skill that is
\* blank or present changes nothing, removing a skill leaves no occurrence
\* of it, and cancelling restores the member's skills.
C29_SkillsCleanFromDuplicateFree ==
  /\ [](NoDuplicates(SkillsOf(member)) =>
          NoDuplicates(editSkills) /\ AllTrimmed(editSkills))
  /\ [][SkillSteps]_vars

\* C29, amended: the same from a loaded skill list that has no duplicate and
\* whose entries are themselves non-empty and trimmed.
C29_SkillsCleanFromClean ==
  /\ []((NoDuplicates(SkillsOf(member)) /\ AllTrimmed(SkillsOf(member))) =>
          NoDuplicates(editSkills) /\ AllTrimmed(editSkills))
  /\ [][SkillSteps]_vars

\* From the loaded list <<a>>, a was removed, b added, and " a" added as a.
C29_Witness ==
  /\ SkillsOf(member) = <<SkillA>>
  /\ isEditingSkills
  /\ editSkills = <<SkillB, SkillA>>
  /\ newSkill = <<>>

====
